---- MODULE Spec2Model ----
(***************************************************************************)
(* Model of the clautify command executor (clautify/dsl/executor.py) and   *)
(* of the session wrapper around it (clautify/dsl/__init__.py).            *)
(*                                                                         *)
(* Text is modelled as a sequence of one-character strings, so that the    *)
(* bare-id test and the uri comparisons work on characters as the code     *)
(* does.  A float in [0,1] is modelled exactly as an integer number of     *)
(* 1/(100*65535) units (One is 1.0), so that v/100 and raw/65535 are both  *)
(* integers; a percentage keeps its integer value.                         *)
(***************************************************************************)
EXTENDS Integers, Sequences, FiniteSets, TLC

VARIABLES player, handles, closed, song, artist, maxVolume, last

vars == <<player, handles, closed, song, artist, maxVolume, last>>

(***************************************************************************)
(* Bounds of the model.                                                    *)
(***************************************************************************)
MaxHandles == 3

(***************************************************************************)
(* Program constants.                                                      *)
(***************************************************************************)
BareIdLen == 22
RawVolumeMax == 65535
PercentMax == 100

One == PercentMax * RawVolumeMax

Min(a, b) == IF a <= b THEN a ELSE b
Max(a, b) == IF a >= b THEN a ELSE b

(***************************************************************************)
(* Text.                                                                   *)
(***************************************************************************)
Rep(c, n) == [i \in 1..n |-> c]

AlnumChars == {"a", "b", "c", "k", "r", "t", "Z", "6", "0"}

StartsWith(s, p) == Len(s) >= Len(p) /\ SubSeq(s, 1, Len(p)) = p

\* re.compile(r"^[a-zA-Z0-9]{22}$").match(target): 22 characters of the class
\* from the start, then the end of the text; Python's $ also matches just
\* before a newline that ends the text.
\* A pattern of 22 letters, without the digits.
IsBareIdLetters(target) ==
    /\ Len(target) = BareIdLen
    /\ \A i \in 1..BareIdLen : target[i] \in AlnumChars \ {"6", "0"}

IsBareId(target) ==
    /\ Len(target) >= BareIdLen
    /\ \A i \in 1..BareIdLen : target[i] \in AlnumChars
    /\ \/ Len(target) = BareIdLen
       \/ Len(target) = BareIdLen + 1 /\ target[BareIdLen + 1] = "\n"

KindText(kind) ==
    CASE kind = "track" -> <<"t", "r", "a", "c", "k">>
      [] kind = "album" -> <<"a", "l", "b", "u", "m">>
      [] kind = "artist" -> <<"a", "r", "t", "i", "s", "t">>
      [] kind = "playlist" -> <<"p", "l", "a", "y", "l", "i", "s", "t">>

\* f"spotify:{kind}:"
UriPrefix(kind) ==
    <<"s", "p", "o", "t", "i", "f", "y", ":">> \o KindText(kind) \o <<":">>

\* f"spotify:{kind}:{target}"
BareUri(kind, target) == UriPrefix(kind) \o target

(***************************************************************************)
(* Collaborator responses: JSON values, tagged by their Python type.       *)
(***************************************************************************)
JNone == [t |-> "none"]
JDict(f) == [t |-> "dict", v |-> f]
JList(s) == [t |-> "list", v |-> s]
JStr(s) == [t |-> "str", v |-> s]

EmptyDict == JDict(<<>>)

\* Python truthiness of a response value.
Truthy(j) ==
    CASE j.t = "none" -> FALSE
      [] j.t = "dict" -> DOMAIN j.v # {}
      [] OTHER -> Len(j.v) > 0

RECURSIVE _deep_get(_, _, _)
_deep_get(data, keys, default) ==
    IF keys = <<>> THEN data
    ELSE IF data.t = "dict"
         THEN LET d == IF Head(keys) \in DOMAIN data.v
                       THEN data.v[Head(keys)] ELSE JNone
              IN  IF d.t = "none" THEN default
                  ELSE _deep_get(d, Tail(keys), default)
         ELSE default

SearchKinds == {"track", "album", "playlist"}

_SEARCH_SECTION_PATH(kind) ==
    CASE kind = "track" -> <<"data", "searchV2", "tracksV2", "items">>
      [] kind = "album" -> <<"data", "searchV2", "albumsV2", "items">>
      [] kind = "playlist" -> <<"data", "searchV2", "playlists", "items">>

RECURSIVE WalkSection(_, _, _)
WalkSection(raw, result, path) ==
    IF path = <<>> THEN result
    ELSE IF result.t = "dict"
         THEN WalkSection(raw,
                          IF Head(path) \in DOMAIN result.v
                          THEN result.v[Head(path)] ELSE EmptyDict,
                          Tail(path))
         ELSE raw

_extract_search_section(raw, kind) ==
    IF kind \notin SearchKinds THEN raw
    ELSE WalkSection(raw, raw, _SEARCH_SECTION_PATH(kind))

(***************************************************************************)
(* Errors.  msg is the message in pieces; command is <<cmd>> or <<>>;      *)
(* error is the collaborator's nested detail (ParentException.error);      *)
(* cause is __cause__.                                                     *)
(***************************************************************************)
NoErr == [type |-> "none"]

CollabError(type, msg, detail) ==
    [type |-> type, kind |-> "Collaborator", msg |-> <<msg>>,
     command |-> <<>>, error |-> detail, cause |-> NoErr]

\* DSLError(message, command=...) raised by the executor itself.
DSLError(kind, msg, command) ==
    [type |-> "DSLError", kind |-> kind, msg |-> msg,
     command |-> command, error |-> <<>>, cause |-> NoErr]

IsErr(e) == e.type # "none"

(***************************************************************************)
(* The world the executor runs against.                                    *)
(***************************************************************************)
\* Targets.  BareA is a bare id; the others are names of one kind or another.
BareA == Rep("6", BareIdLen)
BareNewline == Rep("a", BareIdLen) \o <<"\n">>
Short == Rep("a", BareIdLen - 1)
Long == Rep("a", BareIdLen + 1)
Dashed == Rep("a", BareIdLen - 1) \o <<"-">>
NameHit == <<"D", "e", "n">>
NameTwo == <<"t", "w", "o">>
NameEmpty == <<"x", "y", "z">>
NameNoList == <<"n", "o", "l", "i", "s", "t">>
NameMissing == <<"m", "i", "s", "s">>
NameNoUri == <<"n", "o", "u", "r", "i">>
NameOdd == <<"o", "d", "d">>

FoundId == <<"a", "b", "c">>
OtherId == <<"Z", "Z">>

\* One search item of each shape: tracks are wrapped in "item".
ItemOf(kind, name, id) ==
    LET data == JDict([uri |-> JStr(BareUri(kind, id)), name |-> JStr(name),
                       profile |-> JDict([name |-> JStr(name)])])
    IN  IF kind = "track" THEN JDict([item |-> JDict([data |-> data])])
        ELSE JDict([data |-> data])

ItemNoUri(kind, name) ==
    LET data == JDict([name |-> JStr(name), profile |-> JDict([name |-> JStr(name)])])
    IN  IF kind = "track" THEN JDict([item |-> JDict([data |-> data])])
        ELSE JDict([data |-> data])

\* A search response whose four sections are filled by items(kind).
Response(items(_)) ==
    JDict([data |-> JDict([searchV2 |-> JDict(
        [tracksV2 |-> JDict([items |-> items("track")]),
         albumsV2 |-> JDict([items |-> items("album")]),
         playlists |-> JDict([items |-> items("playlist")]),
         artists |-> JDict([items |-> items("artist")])])])])

\* A search item whose display name is a list, not a text.
ItemOddName(kind) ==
    LET data == JDict([uri |-> JStr(BareUri(kind, FoundId)),
                       profile |-> JDict([name |-> JList(<<JStr(NameOdd)>>)])])
    IN  IF kind = "track" THEN JDict([item |-> JDict([data |-> data])])
        ELSE JDict([data |-> data])

HitItems(kind) == JList(<<ItemOf(kind, NameHit, FoundId)>>)
TwoItems(kind) == JList(<<ItemOf(kind, NameTwo, FoundId), ItemOf(kind, NameTwo, OtherId)>>)
EmptyItems(kind) == JList(<<>>)
NoListItems(kind) == JDict([x |-> ItemOf(kind, NameNoList, FoundId)])
OddItems(kind) == JList(<<ItemOddName(kind)>>)
NoUriItems(kind) == JList(<<ItemNoUri(kind, NameNoUri), ItemOf(kind, NameNoUri, OtherId)>>)

ResponseHit == Response(HitItems)
ResponseTwo == Response(TwoItems)
ResponseEmpty == Response(EmptyItems)
ResponseNoList == Response(NoListItems)
ResponseMissing == JDict([data |-> EmptyDict])
ResponseNoUri == Response(NoUriItems)
ResponseOdd == Response(OddItems)

\* What a search for a term answers.
Catalog(term) ==
    CASE term = NameTwo -> ResponseTwo
      [] term = NameEmpty -> ResponseEmpty
      [] term = NameNoList -> ResponseNoList
      [] term = NameMissing -> ResponseMissing
      [] term = NameNoUri -> ResponseNoUri
      [] term = NameOdd -> ResponseOdd
      [] OTHER -> ResponseHit

Device(key, name, volume) ==
    [key |-> key, name |-> name, volume |-> volume, device_id |-> key]

\* Live channel states: the device list, the active device, this client's
\* device, the queue and the history.
Live(devices, active) ==
    [devices |-> devices, active_id |-> active, device_id |-> "dev0",
     queue |-> <<"q1", "q2">>, history |-> <<"h1">>, playlist_id |-> "pl1"]

DefaultLive == Live(<<Device("dev0", <<"D", "e", "n">>, 32768)>>, "dev0")

LiveStates ==
    {DefaultLive,
     Live(<<Device("dev0", <<"D", "e", "n">>, 0),
            Device("dev1", <<"d", "E", "N">>, RawVolumeMax)>>, "dev1"),
     Live(<<Device("dev0", <<"D", "e", "n", "Z">>, 32768)>>, "gone"),
     Live(<<>>, "dev0")}

\* A live state with more in the queue and in the history than the default
\* limit of status, and two devices.
LongLive ==
    [Live(<<Device("dev0", <<"D", "e", "n">>, 0),
            Device("dev1", <<"d", "E", "N">>, RawVolumeMax)>>, "dev1")
        EXCEPT !.queue = <<"q1", "q2", "q3", "q4", "q5", "q6">>,
               !.history = <<"h1", "h2", "h3", "h4", "h5", "h6", "h7">>]

\* The errors a collaborator call may raise.
WsError == CollabError("WebSocketError", "disconnected", <<>>)

CollabErrors ==
    {WsError,
     CollabError("RuntimeError", "connection lost", <<>>),
     CollabError("SongError", "request failed", <<"HTTP 500">>),
     DSLError("Collaborator", <<"bad state">>, <<>>)}

(***************************************************************************)
(* One run of the executor's code is a fold over a machine record m:       *)
(*   player, handles, closed, song, artist : the executor's handle slots   *)
(*   maxVolume : the ceiling;  env : what the collaborators answer         *)
(*   fault : [at, err], the collaborator call of this attempt that raises  *)
(*   log : the collaborator calls issued in this attempt, in order         *)
(*   err : the exception in flight;  ret : the value just returned         *)
(* Every step leaves m alone once an exception is in flight.               *)
(***************************************************************************)
NoFault == [at |-> 0, err |-> NoErr]

Raise(m, e) == IF IsErr(m.err) THEN m ELSE [m EXCEPT !.err = e]

\* A return that leaves the status field out of the Result.
ReturningBare(m, result) ==
    IF IsErr(m.err) THEN m
    ELSE [m EXCEPT !.ret = [k \in DOMAIN result \ {"status"} |-> result[k]]]

\* return result: what a handler returns when nothing was raised before.
Returning(m, result) == IF IsErr(m.err) THEN m ELSE [m EXCEPT !.ret = result]

\* The operations of the playback channel: the Player constructor, its
\* methods and its live-state properties (clautify/status.py).
ChannelOps ==
    {"Player", "pause", "resume", "skip_next", "skip_prev", "seek_to", "add_to_queue",
     "play_track", "play_context", "set_volume", "set_shuffle", "repeat_track",
     "transfer_player", "device_ids", "state", "next_songs_in_queue",
     "last_songs_played"}

\* WebSocketError is the channel's error: no other collaborator raises it.
Fits(op, e) == e.type = "WebSocketError" => op \in ChannelOps

\* A call to a collaborator: logged with its argument and its outcome.
Call(m, op, arg) ==
    IF IsErr(m.err) THEN m
    ELSE LET e == IF m.fault.at = Len(m.log) + 1 /\ Fits(op, m.fault.err)
                  THEN m.fault.err ELSE NoErr
         IN  [m EXCEPT !.log = Append(@, [op |-> op, arg |-> arg, out |-> e.type]),
                       !.err = e]

\* The player property: constructs the handle when the slot is empty.
PlayerBuilt(c) ==
    IF IsErr(c.err) THEN c
    ELSE [c EXCEPT !.player = c.handles + 1, !.handles = @ + 1]

\* A player property that constructs a handle at every read.
GetPlayerFresh(m) ==
    IF IsErr(m.err) THEN m ELSE PlayerBuilt(Call(m, "Player", <<>>))

GetPlayer(m) ==
    IF IsErr(m.err) \/ m.player # 0 THEN m ELSE PlayerBuilt(Call(m, "Player", <<>>))

PlayerCall(m, op, arg) == Call(GetPlayer(m), op, arg)

\* The song property: PrivatePlaylist(login, "__sentinel__"), then Song(...).
SongBuilt(c) == IF IsErr(c.err) THEN c ELSE [c EXCEPT !.song = 1]

GetSong(m) ==
    IF IsErr(m.err) \/ m.song # 0 THEN m ELSE SongBuilt(Call(m, "Song", <<>>))

SongCall(m, op, arg) == Call(GetSong(m), op, arg)

\* The artist property.
ArtistBuilt(c) == IF IsErr(c.err) THEN c ELSE [c EXCEPT !.artist = 1]

GetArtist(m) ==
    IF IsErr(m.err) \/ m.artist # 0 THEN m ELSE ArtistBuilt(Call(m, "Artist", <<>>))

ArtistCall(m, op, arg) == Call(GetArtist(m), op, arg)

\* A ws.close() whose failure reaches the caller.
WsCloseRaising(m) ==
    [m EXCEPT !.closed = @ \cup {m.player}, !.closes = @ + 1,
              !.err = IF m.closeFails THEN CollabError("OSError", "socket is closed", <<>>)
                      ELSE @]

\* try: self._player.ws.close() except Exception: pass.  The handle in the
\* slot is asked to close; when that fails the failure is swallowed.
WsClose(m) ==
    [m EXCEPT !.closed = @ \cup {m.player}, !.closes = @ + 1,
              !.swallowed = @ + (IF m.closeFails THEN 1 ELSE 0)]

\* A teardown that leaves the closed handle in the slot.
_reset_playerKeeping(m) ==
    IF m.player # 0 THEN [WsClose(m) EXCEPT !.resets = @ + 1]
    ELSE [m EXCEPT !.resets = @ + 1]

\* _reset_player: closes the handle of the slot and empties the slot.
_reset_player(m) ==
    IF m.player # 0 THEN [WsClose(m) EXCEPT !.player = 0, !.resets = @ + 1]
    ELSE [m EXCEPT !.resets = @ + 1]

\* A close that empties the slot.
closeEmptying(m) == IF m.player # 0 THEN [WsClose(m) EXCEPT !.player = 0] ELSE m

\* SpotifyExecutor.close: closes the handle of the slot, which stays there.
close(m) == IF m.player # 0 THEN WsClose(m) ELSE m

(***************************************************************************)
(* Device names compare case-insensitively.                                *)
(***************************************************************************)
LowerChar(c) ==
    CASE c = "D" -> "d"
      [] c = "E" -> "e"
      [] c = "N" -> "n"
      [] c = "Z" -> "z"
      [] c = "T" -> "t"
      [] c = "R" -> "r"
      [] c = "A" -> "a"
      [] c = "C" -> "c"
      [] c = "K" -> "k"
      [] c = "S" -> "s"
      [] c = "H" -> "h"
      [] c = "U" -> "u"
      [] c = "F" -> "f"
      [] c = "L" -> "l"
      [] OTHER -> c

Lower(s) == [i \in 1..Len(s) |-> LowerChar(s[i])]

\* The repr of the list of names, without its brackets.
RECURSIVE DeviceNames(_)
DeviceNames(devices) ==
    IF devices = <<>> THEN <<>>
    ELSE <<"'">> \o devices[1].name \o <<"'">>
            \o (IF Len(devices) > 1 THEN <<",", " ">> ELSE <<>>)
            \o DeviceNames(Tail(devices))

\* A resolution that takes the first device whose name starts with the name.
DeviceNamedPrefix(r, name) ==
    LET devices == r.env.devices
        hit == {i \in 1..Len(devices) : StartsWith(Lower(devices[i].name), Lower(name))}
    IN  IF IsErr(r.err) THEN r
        ELSE IF hit # {}
             THEN [r EXCEPT !.ret =
                      devices[CHOOSE i \in hit : \A o \in hit : i <= o].device_id]
             ELSE Raise(r, DSLError("DeviceNotFound", <<"Device not found">>, <<>>))

\* env.devices lists the entries of Devices.devices in the dict's order.
DeviceNamed(r, name) ==
    LET devices == r.env.devices
        hit == {i \in 1..Len(devices) : Lower(devices[i].name) = Lower(name)}
    IN  IF IsErr(r.err) THEN r
        ELSE IF hit # {}
             THEN [r EXCEPT !.ret =
                      devices[CHOOSE i \in hit : \A o \in hit : i <= o].device_id]
             ELSE Raise(r, DSLError("DeviceNotFound",
                                    <<"Device '">> \o name
                                        \o <<"' not found. Available: ", "[">>
                                        \o DeviceNames(devices) \o <<"]">>,
                                    <<>>))

_resolve_device_id(m, name) == DeviceNamed(PlayerCall(m, "device_ids", <<>>), name)

\* devices.devices.get(key)
DeviceGet(devices, key) ==
    LET hit == {i \in 1..Len(devices) : devices[i].key = key}
    IN  IF hit = {} THEN <<>> ELSE <<devices[CHOOSE i \in hit : TRUE]>>

\* A range test that forgets the lower end.
VolumeInRangeNoFloor(vol) == vol <= PercentMax

\* 0 <= vol <= 100
VolumeInRange(vol) == 0 <= vol /\ vol <= PercentMax

\* A normalisation that forgets the ceiling.
NormalizedVolumeUnclamped(vol, ceiling) == vol * RawVolumeMax

\* min(vol / 100, self._max_volume)
NormalizedVolume(vol, ceiling) == Min(vol * RawVolumeMax, ceiling)

\* dev.volume / 65535
CurrentVolume(raw) == raw * PercentMax

\* An adjustment that clamps to the full range, not to the ceiling.
RelativeVolumeFullRange(current, delta, ceiling) ==
    Max(0, Min(One, current + delta * RawVolumeMax))

\* max(0.0, min(self._max_volume, current + delta / 100))
RelativeVolume(current, delta, ceiling) ==
    Max(0, Min(ceiling, current + delta * RawVolumeMax))

\* if "volume" in cmd
ApplyVolume(m, cmd) ==
    IF IsErr(m.err) \/ "volume" \notin DOMAIN cmd THEN m
    ELSE IF ~VolumeInRange(cmd.volume)
         THEN Raise(m, DSLError("InvalidVolume", <<"Volume must be 0-100">>, <<>>))
         ELSE PlayerCall(m, "set_volume", <<NormalizedVolume(cmd.volume, m.maxVolume)>>)

\* r has read the live devices.
AdjustedVolume(r, delta) ==
    LET dev == DeviceGet(r.env.devices, r.env.active_id)
    IN  IF IsErr(r.err) THEN r
        ELSE IF dev = <<>>
             THEN Raise(r, DSLError("VolumeUnavailable",
                      <<"Cannot determine current volume for relative adjustment">>,
                      <<>>))
             ELSE PlayerCall(r, "set_volume",
                             <<RelativeVolume(CurrentVolume(dev[1].volume), delta,
                                              r.maxVolume)>>)

\* if "volume_rel" in cmd
ApplyVolumeRel(m, cmd) ==
    IF IsErr(m.err) \/ "volume_rel" \notin DOMAIN cmd THEN m
    ELSE AdjustedVolume(PlayerCall(m, "device_ids", <<>>), cmd.volume_rel)

\* A mode modifier that switches both on for every mode but normal.
ApplyModeBoth(m, cmd) ==
    IF IsErr(m.err) \/ "mode" \notin DOMAIN cmd THEN m
    ELSE PlayerCall(PlayerCall(m, "set_shuffle", <<cmd.mode # "normal">>),
                    "repeat_track", <<cmd.mode # "normal">>)

\* if "mode" in cmd
ApplyMode(m, cmd) ==
    IF IsErr(m.err) \/ "mode" \notin DOMAIN cmd THEN m
    ELSE PlayerCall(PlayerCall(m, "set_shuffle", <<cmd.mode = "shuffle">>),
                    "repeat_track", <<cmd.mode = "repeat">>)

\* r has resolved the device name: its id is in r.ret.
Transferred(r) == PlayerCall(r, "transfer_player", <<r.env.device_id, r.ret>>)

\* if "device" in cmd
ApplyDevice(m, cmd) ==
    IF IsErr(m.err) \/ "device" \notin DOMAIN cmd THEN m
    ELSE Transferred(_resolve_device_id(m, cmd.device))

\* State modifiers applied from the last to the first.
_apply_state_modifiersReversed(m, cmd) ==
    ApplyVolume(ApplyVolumeRel(ApplyMode(ApplyDevice(m, cmd), cmd), cmd), cmd)

_apply_state_modifiers(m, cmd) ==
    ApplyDevice(ApplyMode(ApplyVolumeRel(ApplyVolume(m, cmd), cmd), cmd), cmd)

(***************************************************************************)
(* Target resolution.                                                      *)
(***************************************************************************)
SearchOps == {"query_songs", "query_artists"}

\* What the search just issued (the last call of the log) answers.
Answer(m) == Catalog(m.log[Len(m.log)].arg[1])

NoResults(name, cmd) ==
    DSLError("NoResults", <<"No results for \"">> \o name \o <<"\"">>, <<cmd>>)

\* items[0] of a truthy value: a list's first element, a text's first
\* character; a dict has no key 0.
FirstItem(m, items) ==
    CASE items.t = "list" -> [m EXCEPT !.ret = items.v[1]]
      [] items.t = "str" -> [m EXCEPT !.ret = JStr(<<items.v[1]>>)]
      [] OTHER -> Raise(m, CollabError("KeyError", "0", <<>>))

\* uri = _deep_get(items[0], "data", "uri")
ItemUri(f) ==
    IF IsErr(f.err) THEN f
    ELSE [f EXCEPT !.ret = _deep_get(f.ret, <<"data", "uri">>, JNone)]

\* r has called the artist search; items is what the answer holds.
FirstArtist(r, items, name, cmd) ==
    IF IsErr(r.err) THEN r
    ELSE IF ~Truthy(items) THEN Raise(r, NoResults(name, cmd))
    ELSE ItemUri(FirstItem(r, items))

ArtistFound(r, name, cmd) ==
    FirstArtist(r, _deep_get(Answer(r), <<"data", "searchV2", "artists", "items">>,
                             JList(<<>>)),
                name, cmd)

\* A resolution that takes the last item of the section.
FirstOfSectionLast(r, section, kind, name, cmd) ==
    IF IsErr(r.err) THEN r
    ELSE IF section.t # "list" \/ ~Truthy(section) THEN Raise(r, NoResults(name, cmd))
    ELSE IF kind = "track"
         THEN [r EXCEPT !.ret = _deep_get(section.v[Len(section.v)],
                                          <<"item", "data", "uri">>, JNone)]
         ELSE [r EXCEPT !.ret = _deep_get(section.v[Len(section.v)], <<"data", "uri">>,
                                          JNone)]

\* r has called the generic search; section is the kind's part of the answer.
FirstOfSection(r, section, kind, name, cmd) ==
    IF IsErr(r.err) THEN r
    ELSE IF section.t # "list" \/ ~Truthy(section) THEN Raise(r, NoResults(name, cmd))
    ELSE IF kind = "track"
         THEN [r EXCEPT !.ret = _deep_get(section.v[1], <<"item", "data", "uri">>, JNone)]
         ELSE [r EXCEPT !.ret = _deep_get(section.v[1], <<"data", "uri">>, JNone)]

SectionFound(r, kind, name, cmd) ==
    FirstOfSection(r, _extract_search_section(Answer(r), kind), kind, name, cmd)

\* if not uri: raise; return uri
UriFound(found, name, cmd) ==
    IF IsErr(found.err) THEN found
    ELSE IF ~Truthy(found.ret) THEN Raise(found, NoResults(name, cmd))
    ELSE [found EXCEPT !.ret = found.ret.v]

\* Returns the uri in m.ret.
_search_and_resolve(m, kind, name, cmd) ==
    UriFound(IF kind = "artist"
             THEN ArtistFound(ArtistCall(m, "query_artists", <<name, 1>>), name, cmd)
             ELSE SectionFound(SongCall(m, "query_songs", <<name, 1>>), kind, name, cmd),
             name, cmd)

\* Every resolution is appended to m.resolves with the calls it made and what
\* it returned or raised.
Resolved(m, r, kind, target) ==
    [r EXCEPT !.resolves =
        Append(@, [kind |-> kind, target |-> target,
                   calls |-> SubSeq(r.log, Len(m.log) + 1, Len(r.log)),
                   uri |-> IF IsErr(r.err) THEN <<>> ELSE r.ret,
                   err |-> r.err])]

\* Returns the uri in m.ret.
_resolve_target(m, kind, target, cmd) ==
    IF IsErr(m.err) THEN m
    ELSE Resolved(m,
                  IF IsBareId(target) THEN [m EXCEPT !.ret = BareUri(kind, target)]
                  ELSE _search_and_resolve(m, kind, target, cmd),
                  kind, target)

(***************************************************************************)
(* extract_spotify_id (clautify/utils/strings.py).                         *)
(***************************************************************************)
\* The positions where p occurs in s.
Occurrences(s, p) ==
    {i \in 1..(Len(s) - Len(p) + 1) : SubSeq(s, i, i + Len(p) - 1) = p}

\* s.split(p)[-1]: the text after the last occurrence of p.
AfterLast(s, p) ==
    LET at == CHOOSE i \in Occurrences(s, p) : \A o \in Occurrences(s, p) : o <= i
    IN  SubSeq(s, at + Len(p), Len(s))

\* s.split(p)[0]: the text before the first occurrence of p.
BeforeFirst(s, p) ==
    IF Occurrences(s, p) = {} THEN s
    ELSE SubSeq(s, 1, (CHOOSE i \in Occurrences(s, p) :
                          \A o \in Occurrences(s, p) : i <= o) - 1)

extract_spotify_id(identifier, kind) ==
    IF StartsWith(identifier, UriPrefix(kind))
    THEN SubSeq(identifier, Len(UriPrefix(kind)) + 1, Len(identifier))
    ELSE IF Occurrences(identifier, KindText(kind) \o <<"/">>) # {}
    THEN BeforeFirst(AfterLast(identifier, KindText(kind) \o <<"/">>), <<"?">>)
    ELSE IF Occurrences(identifier, KindText(kind) \o <<":">>) # {}
    THEN AfterLast(identifier, KindText(kind) \o <<":">>)
    ELSE identifier

(***************************************************************************)
(* Action handlers.  Each returns its Result in m.ret.                     *)
(***************************************************************************)
\* cmd[key] of a mapping without the key raises KeyError.
Need(m, cmd, keys) ==
    IF keys \subseteq DOMAIN cmd THEN m
    ELSE Raise(m, CollabError("KeyError", CHOOSE k \in keys : k \notin DOMAIN cmd, <<>>))

\* cmd.get(key, default)
Get(cmd, key, default) == IF key \in DOMAIN cmd THEN cmd[key] ELSE default

\* The fields of play's Result.
PlayFields(cmd) ==
    IF Get(cmd, "context", <<>>) # <<>>
    THEN [status |-> "ok", action |-> "play", kind |-> cmd.kind,
          target |-> cmd.target,
          context_kind |-> Get(cmd, "context_kind", "track"),
          context |-> cmd.context]
    ELSE [status |-> "ok", action |-> "play", kind |-> cmd.kind,
          target |-> cmd.target]

\* if uri != target: result["resolved_uri"] = uri
PlayResult(called, uri, cmd) ==
    Returning(called, IF uri # cmd.target
                      THEN PlayFields(cmd) @@ ("resolved_uri" :> uri)
                      ELSE PlayFields(cmd))

\* c has resolved the context: its uri is in c.ret.
PlayInContext(c, uri, cmd) ==
    PlayResult(PlayerCall(c, "play_track", <<uri, c.ret>>), uri, cmd)

\* A play that drops the context: play_context whatever the command carries.
PlayTargetAlone(t, cmd) ==
    IF IsErr(t.err) THEN t
    ELSE PlayResult(PlayerCall(t, "play_context", <<t.ret>>), t.ret, cmd)

\* t has resolved the target: its uri is in t.ret.  The commands of the model
\* carry context and context_kind together.
PlayTarget(t, cmd) ==
    IF IsErr(t.err) THEN t
    ELSE IF Get(cmd, "context", <<>>) # <<>>
         THEN PlayInContext(_resolve_target(t, Get(cmd, "context_kind", "track"),
                                            cmd.context, cmd),
                            t.ret, cmd)
         ELSE PlayResult(PlayerCall(t, "play_context", <<t.ret>>), t.ret, cmd)

_action_play(m, cmd) ==
    PlayTarget(_resolve_target(Need(m, cmd, {"kind", "target"}), cmd.kind, cmd.target,
                               cmd),
               cmd)

RECURSIVE Repeat(_, _, _)
Repeat(m, op, k) ==
    IF k = 0 THEN m ELSE Repeat(PlayerCall(m, op, <<>>), op, k - 1)

Abs(n) == IF n >= 0 THEN n ELSE -n

\* A skip that goes forward whatever the sign of the count.
_action_skipForward(m, cmd) ==
    Returning(Repeat(GetPlayer(m), "skip_next", Abs(Get(cmd, "n", 1))),
              [status |-> "ok", action |-> "skip", n |-> Get(cmd, "n", 1)])

\* fn is bound, so the player property is read, even when n is 0.
_action_skip(m, cmd) ==
    LET n == Get(cmd, "n", 1)
    IN  Returning(Repeat(GetPlayer(m), IF n >= 0 THEN "skip_next" ELSE "skip_prev",
                         Abs(n)),
                  [status |-> "ok", action |-> "skip", n |-> n])

MsPerSecond == 1000

\* position_s is carried in tenths of a second; int() truncates toward zero.
IntOf(tenths) ==
    IF tenths >= 0 THEN tenths \div 10 ELSE -((-tenths) \div 10)

\* A seek that hands the channel the seconds it was given.
_action_seekRaw(m, cmd) ==
    Returning(PlayerCall(Need(m, cmd, {"position_s"}), "seek_to",
                         <<IntOf(cmd.position_s)>>),
              [status |-> "ok", action |-> "seek",
               position_s |-> IntOf(cmd.position_s)])

_action_seek(m, cmd) ==
    Returning(PlayerCall(Need(m, cmd, {"position_s"}), "seek_to",
                         <<IntOf(cmd.position_s) * MsPerSecond>>),
              [status |-> "ok", action |-> "seek",
               position_s |-> IntOf(cmd.position_s)])

\* r has resolved one target: its uri is in r.ret.
Queued(r) == PlayerCall(r, "add_to_queue", <<r.ret>>)

\* A loop that goes on to the later targets after one has failed, and raises
\* the first failure at the end.
RECURSIVE QueueLoopOn(_, _, _)
QueueLoopOn(m, targets, cmd) ==
    IF targets = <<>> THEN m
    ELSE LET r == Queued(_resolve_target([m EXCEPT !.err = NoErr], cmd.kind, Head(targets),
                                         cmd))
         IN  QueueLoopOn([r EXCEPT !.err = IF IsErr(m.err) THEN m.err ELSE r.err],
                         Tail(targets), cmd)

RECURSIVE QueueLoop(_, _, _)
QueueLoop(m, targets, cmd) ==
    IF IsErr(m.err) \/ targets = <<>> THEN m
    ELSE QueueLoop(Queued(_resolve_target(m, cmd.kind, Head(targets), cmd)),
                   Tail(targets), cmd)

\* A queue that takes every kind.
QueueTracksAnyKind(n, cmd) ==
    Returning(QueueLoop(Need(n, cmd, {"targets"}), cmd.targets, cmd),
              [status |-> "ok", action |-> "queue",
               kind |-> cmd.kind, targets |-> cmd.targets])

\* n has read cmd["kind"].
QueueTracks(n, cmd) ==
    IF IsErr(n.err) THEN n
    ELSE IF cmd.kind # "track"
         THEN Raise(n, DSLError("UnsupportedQueueKind",
                                <<"Queue only supports tracks">>, <<cmd>>))
         ELSE Returning(QueueLoop(Need(n, cmd, {"targets"}), cmd.targets, cmd),
                        [status |-> "ok", action |-> "queue",
                         kind |-> cmd.kind, targets |-> cmd.targets])

_action_queue(m, cmd) == QueueTracks(Need(m, cmd, {"kind"}), cmd)

\* which is "add" or "remove".  p has resolved the playlist of the context.
InPlaylist(p, which, bare_id) ==
    Call(Call(Call(p, "PrivatePlaylist", <<extract_spotify_id(p.ret, "playlist")>>),
              "Song", <<extract_spotify_id(p.ret, "playlist")>>),
         IF which = "add" THEN "add_song_to_playlist" ELSE "remove_song_from_playlist",
         <<bare_id>>)

\* A routing that takes every kind for a track.
LibraryTargetLiked(r, which, bare_id, cmd) ==
    SongCall(r, IF which = "add" THEN "like_song" ELSE "unlike_song", <<bare_id>>)

\* r has resolved the target, and bare_id is the id of its uri.
LibraryTarget(r, which, bare_id, cmd) ==
    IF IsErr(r.err) THEN r
    ELSE IF Get(cmd, "context", <<>>) # <<>>
         THEN InPlaylist(_resolve_target(r, Get(cmd, "context_kind", "playlist"),
                                         cmd.context, cmd),
                         which, bare_id)
    ELSE IF cmd.kind = "track"
         THEN SongCall(r, IF which = "add" THEN "like_song" ELSE "unlike_song",
                       <<bare_id>>)
    ELSE IF cmd.kind = "artist"
         THEN ArtistCall(r, IF which = "add" THEN "follow" ELSE "unfollow",
                         <<bare_id>>)
    ELSE IF cmd.kind = "playlist"
         THEN Call(Call(r, "PrivatePlaylist", <<bare_id>>),
                   IF which = "add" THEN "add_to_library" ELSE "remove_from_library",
                   <<>>)
    ELSE IF cmd.kind = "album"
         THEN Raise(r, DSLError("Unsupported",
                                <<"Album library management not yet supported">>,
                                <<cmd>>))
    ELSE r

\* A routing that hands on the uri as it is.
LibraryResolvedUri(r, which, cmd) == LibraryTarget(r, which, r.ret, cmd)

\* bare_id = extract_spotify_id(uri, kind)
LibraryResolved(r, which, cmd) ==
    LibraryTarget(r, which, extract_spotify_id(r.ret, cmd.kind), cmd)

\* One target of library add/remove.
LibraryOne(m, which, target, cmd) ==
    LibraryResolved(_resolve_target(m, cmd.kind, target, cmd), which, cmd)

RECURSIVE LibraryLoop(_, _, _, _)
LibraryLoop(m, which, targets, cmd) ==
    IF IsErr(m.err) \/ targets = <<>> THEN m
    ELSE LibraryLoop(LibraryOne(m, which, Head(targets), cmd), which, Tail(targets), cmd)

LibraryMutate(m, which, cmd) ==
    Returning(LibraryLoop(Need(m, cmd, {"kind", "targets"}), which, cmd.targets, cmd),
              [status |-> "ok",
               action |-> IF which = "add" THEN "library_add" ELSE "library_remove",
               kind |-> cmd.kind, targets |-> cmd.targets])

_action_library_add(m, cmd) == LibraryMutate(m, "add", cmd)

_action_library_remove(m, cmd) == LibraryMutate(m, "remove", cmd)

_action_library_create(m, cmd) ==
    Returning(Call(Call(Need(m, cmd, {"target"}), "PrivatePlaylist", <<>>),
                   "create_playlist", <<cmd.target>>),
              [status |-> "ok", action |-> "library_create",
               kind |-> "playlist", target |-> cmd.target,
               playlist_id |-> m.env.playlist_id])

\* r has resolved the playlist: its uri is in r.ret.
Deleted(r) ==
    Call(Call(r, "PrivatePlaylist", <<extract_spotify_id(r.ret, "playlist")>>),
         "delete_playlist", <<>>)

_action_library_delete(m, cmd) ==
    Returning(Deleted(_resolve_target(Need(m, cmd, {"target"}), "playlist", cmd.target,
                                      cmd)),
              [status |-> "ok", action |-> "library_delete",
               kind |-> "playlist", target |-> cmd.target])

ActionHandlers ==
    {"play", "skip", "seek", "queue", "library_add", "library_remove",
     "library_create", "library_delete"}

\* getattr(self, f"_action_{action}")(cmd)
ActionHandler(m, cmd) ==
    CASE cmd.action = "play" -> _action_play(m, cmd)
      [] cmd.action = "skip" -> _action_skip(m, cmd)
      [] cmd.action = "seek" -> _action_seek(m, cmd)
      [] cmd.action = "queue" -> _action_queue(m, cmd)
      [] cmd.action = "library_add" -> _action_library_add(m, cmd)
      [] cmd.action = "library_remove" -> _action_library_remove(m, cmd)
      [] cmd.action = "library_create" -> _action_library_create(m, cmd)
      [] cmd.action = "library_delete" -> _action_library_delete(m, cmd)

(***************************************************************************)
(* Query handlers.  What a collaborator returns as data is opaque: the     *)
(* Result carries the name of the call that produced it.                   *)
(***************************************************************************)
\* raw["data"]["searchV2"]["artists"]["items"]: KeyError and TypeError are
\* swallowed by the caller, and then nothing is added.
RECURSIVE Subscript(_, _)
Subscript(data, keys) ==
    IF keys = <<>> THEN <<data>>
    ELSE IF data.t = "dict" /\ Head(keys) \in DOMAIN data.v
         THEN Subscript(data.v[Head(keys)], Tail(keys))
         ELSE <<>>

\* The keys of a dict, as texts of one piece each.
RECURSIVE KeysOf(_)
KeysOf(keys) ==
    IF keys = {} THEN <<>>
    ELSE LET k == CHOOSE x \in keys : TRUE
         IN  <<JStr(<<k>>)>> \o KeysOf(keys \ {k})

\* all_results.extend(items): a list adds its elements, a text its
\* characters, a dict its keys; extending by None raises TypeError
\* (swallowed as above).
Extended(all, found) ==
    IF found = <<>> THEN all
    ELSE CASE found[1].t = "list" -> all \o found[1].v
           [] found[1].t = "str" ->
                 all \o [i \in 1..Len(found[1].v) |-> JStr(<<found[1].v[i]>>)]
           [] found[1].t = "dict" -> all \o KeysOf(DOMAIN found[1].v)
           [] OTHER -> all

\* a has called the artist search; sofar are the items found before.
ArtistItemsAdded(a, sofar) ==
    IF IsErr(a.err) THEN a
    ELSE [a EXCEPT !.ret =
             Extended(sofar, Subscript(Answer(a),
                                       <<"data", "searchV2", "artists", "items">>))]

\* if isinstance(section, list): all_results.extend(section)
SectionAdded(g, sofar, section) ==
    IF IsErr(g.err) THEN g
    ELSE IF section.t = "list" THEN [g EXCEPT !.ret = sofar \o section.v]
    ELSE [g EXCEPT !.ret = sofar]

\* g has called the generic search.
SectionItemsAdded(g, sofar, kind) ==
    SectionAdded(g, sofar, _extract_search_section(Answer(g), kind))

\* One term of the loop; the items found so far are in m.ret.
SearchTerm(m, term, cmd) ==
    IF cmd.kind = "artist"
    THEN ArtistItemsAdded(ArtistCall(m, "query_artists",
                                     <<term, Get(cmd, "limit", 10), Get(cmd, "offset", 0)>>),
                          m.ret)
    ELSE SectionItemsAdded(SongCall(m, "query_songs",
                                    <<term, Get(cmd, "limit", 10), Get(cmd, "offset", 0)>>),
                           m.ret, cmd.kind)

RECURSIVE SearchLoop(_, _, _)
SearchLoop(m, terms, cmd) ==
    IF IsErr(m.err) \/ terms = <<>> THEN m
    ELSE SearchLoop(SearchTerm(m, Head(terms), cmd), Tail(terms), cmd)

\* An exact artist match is promoted to the artist's info.
Promoted(info, name) ==
    Returning(info, [status |-> "ok", query |-> "info", kind |-> "artist",
                     target |-> name, data |-> "get_artist"])

\* A promotion that compares the display name and the term as they are.
SearchResultExact(found, cmd) ==
    LET all_results == found.ret
        first_name == _deep_get(found.ret[1], <<"data", "profile", "name">>, JStr(<<>>))
        uri == _deep_get(found.ret[1], <<"data", "uri">>, JStr(<<>>))
        plain == [found EXCEPT !.ret = [status |-> "ok", query |-> "search",
                                        kind |-> cmd.kind, terms |-> cmd.terms,
                                        data |-> found.ret]]
    IN  IF IsErr(found.err) THEN found
        ELSE IF cmd.kind = "artist" /\ Len(cmd.terms) = 1 /\ all_results # <<>>
             THEN IF first_name.t # "str"
                  THEN Raise(found, CollabError("AttributeError", "lower", <<>>))
                  ELSE IF first_name.v = cmd.terms[1] /\ Truthy(uri)
                       THEN Promoted(ArtistCall(found, "get_artist",
                                                <<extract_spotify_id(uri.v, "artist")>>),
                                     first_name.v)
                       ELSE plain
             ELSE plain

\* found has run the loop: all_results is in found.ret.
SearchResult(found, cmd) ==
    LET all_results == found.ret
        first_name == _deep_get(found.ret[1], <<"data", "profile", "name">>, JStr(<<>>))
        uri == _deep_get(found.ret[1], <<"data", "uri">>, JStr(<<>>))
        plain == [found EXCEPT !.ret = [status |-> "ok", query |-> "search",
                                        kind |-> cmd.kind, terms |-> cmd.terms,
                                        data |-> found.ret]]
    IN  IF IsErr(found.err) THEN found
        ELSE IF cmd.kind = "artist" /\ Len(cmd.terms) = 1 /\ all_results # <<>>
             THEN IF first_name.t # "str"
                  THEN Raise(found, CollabError("AttributeError", "lower", <<>>))
                  ELSE IF Lower(first_name.v) = Lower(cmd.terms[1]) /\ Truthy(uri)
                       THEN Promoted(ArtistCall(found, "get_artist",
                                                <<extract_spotify_id(uri.v, "artist")>>),
                                     first_name.v)
                       ELSE plain
             ELSE plain

_query_search(m, cmd) ==
    SearchResult(SearchLoop(Returning(Need(m, cmd, {"terms", "kind"}), <<>>),
                            cmd.terms, cmd),
                 cmd)

\* A slice that keeps everything.
SliceAll(seq, limit) == seq

\* seq[:limit]
Slice(seq, limit) ==
    IF limit >= 0 THEN SubSeq(seq, 1, Min(limit, Len(seq)))
    ELSE SubSeq(seq, 1, Max(0, Len(seq) + limit))

_query_status(m, cmd) ==
    Returning(PlayerCall(PlayerCall(PlayerCall(PlayerCall(m,
                  "state", <<>>), "next_songs_in_queue", <<>>),
                  "device_ids", <<>>), "last_songs_played", <<>>),
              [status |-> "ok", query |-> "status", limit |-> Get(cmd, "limit", 5),
               now_playing |-> "state",
               queue |-> Slice(m.env.queue, Get(cmd, "limit", 5)),
               devices |-> m.env.devices,
               history |-> Slice(m.env.history, Get(cmd, "limit", 5))])

\* r has resolved the target, and bare_id is the id of its uri.
InfoOf(r, bare_id, cmd) ==
    IF IsErr(r.err) THEN r
    ELSE CASE cmd.kind = "track" -> SongCall(r, "get_track_info", <<bare_id>>)
           [] cmd.kind = "artist" -> ArtistCall(r, "get_artist", <<bare_id>>)
           [] cmd.kind = "album" ->
                 Call(Call(r, "PublicAlbum", <<bare_id>>), "get_album_info",
                      <<Get(cmd, "limit", 25), Get(cmd, "offset", 0)>>)
           [] cmd.kind = "playlist" ->
                 Call(Call(r, "PublicPlaylist", <<bare_id>>), "get_playlist_info",
                      <<Get(cmd, "limit", 25), Get(cmd, "offset", 0)>>)
           [] OTHER -> Raise(r, DSLError("Unsupported",
                                         <<"Cannot get info for kind">>, <<cmd>>))

\* bare_id = extract_spotify_id(uri, kind)
InfoResolved(r, cmd) ==
    Returning(InfoOf(r, extract_spotify_id(r.ret, cmd.kind), cmd),
              [status |-> "ok", query |-> "info", kind |-> cmd.kind,
               target |-> cmd.target, data |-> "info"])

_query_info(m, cmd) ==
    InfoResolved(_resolve_target(Need(m, cmd, {"kind", "target"}), cmd.kind, cmd.target,
                                 cmd),
                 cmd)

_query_library_list(m, cmd) ==
    Returning(Call(Call(Need(m, cmd, {"kind"}), "PrivatePlaylist", <<>>), "get_library",
                   <<Get(cmd, "limit", 50), Get(cmd, "offset", 0), cmd.kind>>),
              [status |-> "ok", query |-> "library_list",
               kind |-> cmd.kind, data |-> "get_library",
               limit |-> Get(cmd, "limit", 50)])

\* r has resolved the playlist: its uri is in r.ret.
Recommended(r, count) ==
    Call(Call(r, "PrivatePlaylist", <<extract_spotify_id(r.ret, "playlist")>>),
         "recommended_songs", <<count>>)

_query_recommend(m, cmd) ==
    Returning(Recommended(_resolve_target(Need(m, cmd, {"context", "context_kind", "kind"}),
                                          cmd.context_kind, cmd.context, cmd),
                          Get(cmd, "n", 20)),
              [status |-> "ok", query |-> "recommend",
               kind |-> cmd.kind, context |-> cmd.context,
               n |-> Get(cmd, "n", 20), data |-> "recommended_songs"])

QueryHandlers == {"search", "status", "info", "library_list", "recommend"}

_dispatch_query(m, cmd) ==
    CASE cmd.query = "search" -> _query_search(m, cmd)
      [] cmd.query = "status" -> _query_status(m, cmd)
      [] cmd.query = "info" -> _query_info(m, cmd)
      [] cmd.query = "library_list" -> _query_library_list(m, cmd)
      [] cmd.query = "recommend" -> _query_recommend(m, cmd)
      [] OTHER -> Raise(m, DSLError("UnknownQuery", <<"Unknown query">>, <<cmd>>))

(***************************************************************************)
(* Dispatch and retry.                                                     *)
(***************************************************************************)
StateModifierKeys == {"volume", "volume_rel", "mode", "device"}

\* The volume a Result reports in place of the requested one.
EchoedVolumeRequested(volume, ceiling) == volume * RawVolumeMax

\* min(cmd["volume"], self._max_volume * 100), in units of 1/65535 percent.
EchoedVolume(volume, ceiling) == Min(volume * RawVolumeMax, ceiling)

\* A dispatch that takes an action without a handler for done.
PrimaryLenient(m, cmd) ==
    IF cmd.action \in {"pause", "resume"}
    THEN Returning(PlayerCall(m, cmd.action, <<>>),
                   [status |-> "ok", action |-> cmd.action])
    ELSE IF cmd.action \in ActionHandlers THEN ActionHandler(m, cmd)
    ELSE Returning(m, [status |-> "ok", action |-> cmd.action])

\* The action itself, before the state modifiers.
Primary(m, cmd) ==
    IF cmd.action \in {"pause", "resume"}
    THEN Returning(PlayerCall(m, cmd.action, <<>>),
                   [status |-> "ok", action |-> cmd.action])
    ELSE IF cmd.action = "set"
    THEN Returning(m, [status |-> "ok", action |-> "set"]
                          @@ [k \in StateModifierKeys \cap DOMAIN cmd |-> cmd[k]])
    ELSE IF cmd.action \in ActionHandlers THEN ActionHandler(m, cmd)
    ELSE Raise(m, DSLError("UnknownAction", <<"Unknown action">>, <<cmd>>))

\* if "volume" in cmd and "volume" in result: the Result echoes the volume.
Echoed(modified, result, cmd, ceiling) ==
    IF IsErr(modified.err) THEN modified
    ELSE IF "volume" \in DOMAIN cmd /\ "volume" \in DOMAIN result
         THEN [modified EXCEPT !.ret =
                  [result EXCEPT !["volume"] = EchoedVolume(cmd.volume, ceiling)]]
         ELSE [modified EXCEPT !.ret = result]

\* primary has run the action: its Result is in primary.ret.
Modified(primary, cmd) ==
    Echoed(_apply_state_modifiers(primary, cmd), primary.ret, cmd, primary.maxVolume)

\* A dispatch that applies the state modifiers before the action runs.
_dispatch_actionModifiersFirst(m, cmd) == Primary(_apply_state_modifiers(m, cmd), cmd)

_dispatch_action(m, cmd) == Modified(Primary(m, cmd), cmd)

\* No wrapping: the collaborator's error goes on as it is.
WrappedNot(e, cmd) == e

\* raise DSLError(f"{type(e).__name__}: {e} ({detail})", command=cmd) from e
Wrapped(e, cmd) ==
    [type |-> "DSLError", kind |-> "Wrapped",
     msg |-> <<e.type, ": ">> \o e.msg
                 \o (IF e.error # <<>> THEN <<" (">> \o e.error \o <<")">> ELSE <<>>),
     command |-> <<cmd>>, error |-> <<>>, cause |-> e]

\* The try block of an attempt.
Dispatched(start, cmd) ==
    IF "action" \in DOMAIN cmd THEN _dispatch_action(start, cmd)
    ELSE IF "query" \in DOMAIN cmd THEN _dispatch_query(start, cmd)
    ELSE Raise(start, DSLError("MalformedCommand",
                               <<"Invalid command: no action or query key">>, <<cmd>>))

\* The except clauses of an attempt: a DSL error goes on, any other error is
\* wrapped.  The attempt's calls are appended to logs and what dispatch
\* raised (NoErr if nothing) to raised.
Attempted(done, cmd) ==
    LET seen == [done EXCEPT !.logs = Append(@, done.log),
                             !.raised = Append(@, done.err)]
    IN  IF ~IsErr(done.err) \/ done.err.type = "DSLError" THEN seen
        ELSE [seen EXCEPT !.err = Wrapped(done.err, cmd)]

\* One attempt, with fault as its failing call.
_execute_once(m, cmd, fault) ==
    Attempted(Dispatched([m EXCEPT !.log = <<>>, !.fault = fault, !.err = NoErr,
                                   !.ret = <<>>],
                         cmd),
              cmd)

\* A test that looks at the error itself only, never at its cause.
IsTransientRawOnly(first) == first.type = "WebSocketError"

\* A test that takes every error for a transient one.
IsTransientAlways(first) == TRUE

\* isinstance(inner, WebSocketError) or isinstance(first, WebSocketError)
IsTransient(first) ==
    \/ first.type = "WebSocketError"
    \/ first.type = "DSLError" /\ first.cause.type = "WebSocketError"

\* raise DSLError(f"{type(e).__name__}: {e}", command=cmd) from e
WrappedAgain(e, cmd) ==
    [type |-> "DSLError", kind |-> "Wrapped", msg |-> <<e.type, ": ">> \o e.msg,
     command |-> <<cmd>>, error |-> <<>>, cause |-> e]

\* The except clause of the second attempt: a DSL error is raised again, any
\* other error is wrapped.
Reraised(m, cmd) ==
    IF ~IsErr(m.err) \/ m.err.type = "DSLError" THEN m
    ELSE [m EXCEPT !.err = WrappedAgain(m.err, cmd)]

\* A third attempt after a transient failure of the second.
RetriedThird(second, cmd) ==
    IF ~IsErr(second.err) \/ ~IsTransient(second.err) THEN second
    ELSE Reraised(_execute_once(_reset_player(second), cmd, NoFault), cmd)

RetriedAgain(first, cmd, fault2) ==
    IF ~IsErr(first.err) \/ ~IsTransient(first.err) THEN first
    ELSE RetriedThird(_execute_once(_reset_player(first), cmd, fault2), cmd)

\* An execute that retries after a transient failure of the second attempt.
executeRetryAgain(m, cmd, fault1, fault2) ==
    RetriedAgain(_execute_once(m, cmd, fault1), cmd, fault2)

\* A second attempt that takes the action as done and applies the state
\* modifiers only.
RetriedModifiersOnly(first, cmd, fault2) ==
    IF ~IsErr(first.err) \/ ~IsTransient(first.err) THEN first
    ELSE Reraised(Attempted(_apply_state_modifiers(
                                [_reset_player(first) EXCEPT !.log = <<>>, !.fault = fault2,
                                                             !.err = NoErr, !.ret = <<>>],
                                cmd),
                            cmd),
                  cmd)

\* The except clause of the first attempt: only a transient failure resets
\* the player and runs the second attempt.
Retried(first, cmd, fault2) ==
    IF ~IsErr(first.err) THEN first
    ELSE IF first.err.type \notin {"WebSocketError", "DSLError"} THEN first
    ELSE IF ~IsTransient(first.err) THEN first
    ELSE Reraised(_execute_once(_reset_player(first), cmd, fault2), cmd)

execute(m, cmd, fault1, fault2) == Retried(_execute_once(m, cmd, fault1), cmd, fault2)

(***************************************************************************)
(* The commands the model issues: mappings as parse() produces them, and   *)
(* mappings handed to execute() directly.                                  *)
(***************************************************************************)
Kinds == {"track", "album", "artist", "playlist"}

DenName == <<"d", "e", "n">>
GarageName == <<"G", "a", "r", "a", "g", "e">>

NoMods == [k \in {} |-> 0]

StateMods ==
    {NoMods}
        \cup {[volume |-> v] : v \in {-5, 0, 30, 70, 100, 150}}
        \cup {[volume_rel |-> d] : d \in {-60, 10, 60}}
        \cup {[mode |-> x] : x \in {"shuffle", "repeat", "normal"}}
        \cup {[device |-> n] : n \in {DenName, GarageName}}
        \cup {[volume |-> 70, mode |-> "shuffle", device |-> DenName],
              [volume |-> 30, volume_rel |-> 10],
              [volume |-> 150, mode |-> "repeat"],
              [volume_rel |-> -20, device |-> GarageName]}

PlayCmds ==
    {[action |-> "play", kind |-> k, target |-> BareA] : k \in Kinds}
        \cup {[action |-> "play", kind |-> "track", target |-> t] :
                 t \in {NameHit, NameTwo, NameEmpty, NameNoUri, BareNewline, Short, Long,
                        Dashed}}
        \cup {[action |-> "play", kind |-> "artist", target |-> t] :
                 t \in {NameHit, NameEmpty, NameNoList, NameMissing}}
        \cup {[action |-> "play", kind |-> "album", target |-> t] :
                 t \in {NameHit, NameNoList, NameMissing}}
        \cup {[action |-> "play", kind |-> "track", target |-> BareA,
               context_kind |-> "playlist", context |-> c] : c \in {BareA, NameHit}}
        \cup {[action |-> "play", kind |-> "track", target |-> NameHit,
               context_kind |-> k, context |-> c] :
                 k \in {"playlist", "album"}, c \in {NameTwo, NameEmpty, BareA}}

QueueCmds ==
    {[action |-> "queue", kind |-> "track", targets |-> ts] :
        ts \in {<<BareA>>, <<NameHit, BareA>>, <<NameHit, NameEmpty>>}}
        \cup {[action |-> "queue", kind |-> "album", targets |-> <<BareA>>]}

LibraryCmds ==
    {[action |-> a, kind |-> k, targets |-> <<BareA>>] :
        a \in {"library_add", "library_remove"}, k \in Kinds}
        \cup {[action |-> "library_add", kind |-> "track", targets |-> <<NameHit>>],
              [action |-> "library_add", kind |-> "track", targets |-> <<NameEmpty>>],
              [action |-> "library_add", kind |-> "track", targets |-> <<BareA>>,
               context_kind |-> "playlist", context |-> BareA],
              [action |-> "library_remove", kind |-> "track", targets |-> <<NameHit>>,
               context_kind |-> "playlist", context |-> NameHit],
              [action |-> "library_create", kind |-> "playlist", target |-> NameHit],
              [action |-> "library_delete", kind |-> "playlist", target |-> BareA],
              [action |-> "library_delete", kind |-> "playlist", target |-> NameHit]}

\* The actions every state modifier is tried on.
ModifiedCmds ==
    {[action |-> "pause"], [action |-> "set"], [action |-> "skip", n |-> 2]}

QueryCmds ==
    {[query |-> "info", kind |-> k, target |-> BareA] : k \in Kinds}
        \cup {[query |-> "search", kind |-> k, terms |-> <<NameHit>>] :
                 k \in {"track", "artist"}}
        \cup {[query |-> "info", kind |-> "track", target |-> NameEmpty],
              [query |-> "info", kind |-> "artist", target |-> NameHit],
              [query |-> "status"], [query |-> "status", limit |-> 1],
              [query |-> "library_list", kind |-> "track"],
              [query |-> "recommend", kind |-> "track", context_kind |-> "playlist",
               context |-> BareA],
              [query |-> "recommend", kind |-> "track", context_kind |-> "playlist",
               context |-> NameHit, n |-> 5],
              [query |-> "explode"]}

\* The commands of the retry specification: one or two of every handler.
RetryCmds ==
    {[action |-> "pause", volume |-> 70],
     [action |-> "set", volume |-> 70, mode |-> "shuffle"],
     [action |-> "skip", n |-> 2, volume |-> 70],
     [action |-> "play", kind |-> "track", target |-> NameHit],
     [action |-> "play", kind |-> "track", target |-> NameEmpty],
     [action |-> "queue", kind |-> "track", targets |-> <<NameHit, BareA>>],
     [action |-> "library_add", kind |-> "track", targets |-> <<NameHit>>],
     [action |-> "library_delete", kind |-> "playlist", target |-> BareA],
     [action |-> "explode"],
     [query |-> "status"],
     [query |-> "search", kind |-> "artist", terms |-> <<NameHit>>],
     [query |-> "info", kind |-> "album", target |-> BareA],
     [kind |-> "track"]}

\* The commands of the resolution specification: every command that carries
\* a target.
ResolveCmds ==
    PlayCmds \cup QueueCmds \cup LibraryCmds
        \cup {c \in QueryCmds : Get(c, "query", "") \in {"info", "recommend"}}

\* The commands of the volume specification.
VolumeCmds ==
    {c @@ mods : c \in ModifiedCmds, mods \in StateMods}
        \cup {[query |-> "status", volume |-> 70]}

\* SpotifyTransformer._cmd (clautify/dsl/parser.py): the action and the
\* keyword arguments that are there.
_cmd(action, kwargs) == [action |-> action] @@ kwargs

\* SpotifyTransformer.skip: items holds the count when the text gives one.
skip(items) == _cmd("skip", [n |-> IF items # <<>> THEN items[1] ELSE 1])

\* What the parser hands to skip: no count, or a signed one.
SkipItems == {<<>>, <<-2>>, <<0>>, <<1>>, <<3>>}

\* skip as parsed, and as a mapping without a count.
SkipCmds == {skip(items) : items \in SkipItems} \cup {[action |-> "skip"]}

\* SpotifyTransformer.seek: items holds the position of the text.
seek(items) == _cmd("seek", [position_s |-> items[1]])

\* Positions in tenths of a second: 0, 0.9, 3.0, 12.5 and 61.7 as the parser
\* gives them, -1.5 as only a caller of execute can give it.
SeekPositions == {0, 9, 30, 125, 617, -15}

\* seek as parsed, and as a mapping without a position.
SeekCmds == {seek(<<p>>) : p \in SeekPositions} \cup {[action |-> "seek"]}

\* Searches of every kind, of one and two terms, for names the catalog
\* answers in every way, with and without a limit and an offset; and the
\* actions that resolve an artist by name.
SearchCmds ==
    {[query |-> "search", kind |-> k, terms |-> <<t>>] :
        k \in {"artist", "track"},
        t \in {NameHit, DenName, GarageName, NameTwo, NameEmpty, NameNoList,
               NameMissing, NameNoUri, NameOdd}}
        \cup {[query |-> "search", kind |-> "artist", terms |-> ts] :
                 ts \in {<<>>, <<NameHit, NameHit>>, <<NameEmpty, NameHit>>}}
        \cup {[query |-> "search", kind |-> "artist", terms |-> <<DenName>>,
               limit |-> 3, offset |-> 1],
              [query |-> "search", kind |-> "album", terms |-> <<NameHit>>],
              [action |-> "play", kind |-> "artist", target |-> NameHit],
              [action |-> "play", kind |-> "artist", target |-> DenName]}

\* status without a limit and with limits below, at and above what the
\* channel holds; -1 as only a caller of execute can give it.
StatusLimits == {0, 1, 2, 5, 6, 9, -1}

StatusCmds == {[query |-> "status", limit |-> n] : n \in StatusLimits}

\* The state modifiers of the dispatch specification.
DispatchMods ==
    {NoMods, [volume |-> 70], [volume_rel |-> 10]}
        \cup {[mode |-> x] : x \in {"shuffle", "repeat", "normal"}}
        \cup {[device |-> n] : n \in {DenName, GarageName}}
        \cup {[volume |-> 70, mode |-> "shuffle", device |-> DenName],
              [volume_rel |-> 10, device |-> DenName]}

\* One command of every action, and an action no handler is registered for.
PrimaryCmds ==
    {[action |-> "pause"], [action |-> "resume"], [action |-> "set"],
     [action |-> "play", kind |-> "track", target |-> BareA],
     [action |-> "play", kind |-> "track", target |-> NameEmpty],
     [action |-> "skip", n |-> 2],
     [action |-> "seek", position_s |-> 125],
     [action |-> "queue", kind |-> "track", targets |-> <<NameHit>>],
     [action |-> "library_add", kind |-> "track", targets |-> <<BareA>>],
     [action |-> "library_remove", kind |-> "artist", targets |-> <<BareA>>],
     [action |-> "library_create", kind |-> "playlist", target |-> NameHit],
     [action |-> "library_delete", kind |-> "playlist", target |-> BareA],
     [action |-> "explode"]}

\* Queries whose mapping carries state modifier keys.
ModifiedQueries ==
    {q @@ mods :
        q \in {[query |-> "status"],
               [query |-> "search", kind |-> "track", terms |-> <<NameHit>>],
               [query |-> "info", kind |-> "track", target |-> BareA],
               [query |-> "library_list", kind |-> "track"],
               [query |-> "recommend", kind |-> "track", context_kind |-> "playlist",
                context |-> BareA],
               [query |-> "explode"]},
        mods \in {NoMods,
                  [volume |-> 70, mode |-> "shuffle", device |-> DenName]}}

\* Mappings with neither tag, and with both.
UntaggedCmds == {NoMods, [kind |-> "track"], [volume |-> 70]}

BothTagsCmds ==
    {[action |-> "pause", query |-> "status"],
     [action |-> "set", query |-> "status", volume |-> 70]}

\* Queues of one, two and three targets, names and bare ids.
QueueOrderCmds ==
    {[action |-> "queue", kind |-> "track", targets |-> ts] :
        ts \in {<<BareA, NameHit>>, <<NameTwo, NameHit>>, <<NameHit, BareA, NameTwo>>,
                <<NameHit, NameEmpty, BareA>>}}
        \cup {[action |-> "queue", kind |-> k, targets |-> <<NameHit, BareA>>] :
                 k \in Kinds \ {"track"}}

\* Library add/remove along every route.
LibraryRouteCmds ==
    {[action |-> a, kind |-> k, targets |-> ts] :
        a \in {"library_add", "library_remove"}, k \in Kinds,
        ts \in {<<NameHit>>, <<BareA, NameTwo>>}}
        \cup {[action |-> a, kind |-> k, targets |-> <<NameHit, BareA>>,
               context_kind |-> "playlist", context |-> c] :
                 a \in {"library_add", "library_remove"}, k \in {"track", "album"},
                 c \in {BareA, NameTwo}}
        \cup {[action |-> "library_add", kind |-> "album", targets |-> ts] :
                 ts \in {<<NameEmpty>>, <<BareA, NameEmpty>>, <<BareA, BareA, BareA>>}}

\* Queue and library add/remove of three targets, the second a name the
\* catalog has nothing for, with and without state modifiers.
NoRollbackCmds ==
    {c @@ mods :
        c \in {[action |-> "queue", kind |-> "track",
                targets |-> <<NameHit, NameEmpty, BareA>>],
               [action |-> "queue", kind |-> "track",
                targets |-> <<BareA, NameTwo, NameNoUri>>],
               [action |-> "library_add", kind |-> "track",
                targets |-> <<BareA, NameEmpty, BareA>>],
               [action |-> "library_remove", kind |-> "artist",
                targets |-> <<NameHit, NameNoUri, BareA>>],
               [action |-> "library_add", kind |-> "playlist",
                targets |-> <<NameEmpty, BareA>>]},
        mods \in {NoMods, [volume |-> 70], [mode |-> "shuffle", device |-> DenName]}}

\* The commands of the dispatch specification.
DispatchCmds ==
    {c @@ mods : c \in PrimaryCmds, mods \in DispatchMods} \cup NoRollbackCmds
        \cup ModifiedQueries \cup UntaggedCmds \cup BothTagsCmds \cup SkipCmds
        \cup SeekCmds \cup SearchCmds \cup StatusCmds
        \cup QueueCmds \cup QueueOrderCmds \cup LibraryCmds \cup LibraryRouteCmds

(***************************************************************************)
(* The parser (clautify/dsl/parser.py).  A command text is the sequence of *)
(* its lexemes, each a text; the white space between them is ignored.      *)
(***************************************************************************)
\* How the keywords are spelled.
Spell(name) ==
    CASE name = "play" -> <<"p", "l", "a", "y">>
      [] name = "pause" -> <<"p", "a", "u", "s", "e">>
      [] name = "resume" -> <<"r", "e", "s", "u", "m", "e">>
      [] name = "skip" -> <<"s", "k", "i", "p">>
      [] name = "seek" -> <<"s", "e", "e", "k">>
      [] name = "queue" -> <<"q", "u", "e", "u", "e">>
      [] name = "library" -> <<"l", "i", "b", "r", "a", "r", "y">>
      [] name = "add" -> <<"a", "d", "d">>
      [] name = "remove" -> <<"r", "e", "m", "o", "v", "e">>
      [] name = "create" -> <<"c", "r", "e", "a", "t", "e">>
      [] name = "delete" -> <<"d", "e", "l", "e", "t", "e">>
      [] name = "list" -> <<"l", "i", "s", "t">>
      [] name = "search" -> <<"s", "e", "a", "r", "c", "h">>
      [] name = "info" -> <<"i", "n", "f", "o">>
      [] name = "recommend" -> <<"r", "e", "c", "o", "m", "m", "e", "n", "d">>
      [] name = "status" -> <<"s", "t", "a", "t", "u", "s">>
      [] name = "in" -> <<"i", "n">>
      [] name = "volume" -> <<"v", "o", "l", "u", "m", "e">>
      [] name = "mode" -> <<"m", "o", "d", "e">>
      [] name = "device" -> <<"d", "e", "v", "i", "c", "e">>
      [] name = "limit" -> <<"l", "i", "m", "i", "t">>
      [] name = "offset" -> <<"o", "f", "f", "s", "e", "t">>
      [] name = "shuffle" -> <<"s", "h", "u", "f", "f", "l", "e">>
      [] name = "repeat" -> <<"r", "e", "p", "e", "a", "t">>
      [] name = "normal" -> <<"n", "o", "r", "m", "a", "l">>
      [] name = "explode" -> <<"e", "x", "p", "l", "o", "d", "e">>
      [] OTHER -> KindText(name)

Modes == {"shuffle", "repeat", "normal"}

LibMuts == {"add", "remove"}

Digits == {"0", "1", "2", "3", "4", "5", "6", "7", "8", "9"}

DigitOf(c) ==
    CASE c = "0" -> 0 [] c = "1" -> 1 [] c = "2" -> 2 [] c = "3" -> 3 [] c = "4" -> 4
      [] c = "5" -> 5 [] c = "6" -> 6 [] c = "7" -> 7 [] c = "8" -> 8 [] c = "9" -> 9

RECURSIVE IntValue(_)
IntValue(digits) ==
    IF digits = <<>> THEN 0
    ELSE 10 * IntValue(SubSeq(digits, 1, Len(digits) - 1)) + DigitOf(digits[Len(digits)])

\* The classes of lexemes.
IsDigits(t) == t # <<>> /\ \A i \in DOMAIN t : t[i] \in Digits

IsDelta(t) == Len(t) >= 2 /\ t[1] \in {"+", "-"} /\ IsDigits(Tail(t))

IsDecimal(t) ==
    \/ IsDigits(t)
    \/ \E p \in DOMAIN t :
          /\ t[p] = "."
          /\ IsDigits(SubSeq(t, 1, p - 1))
          /\ IsDigits(SubSeq(t, p + 1, Len(t)))

IsQuoted(t) == Len(t) >= 2 /\ t[1] = "\"" /\ t[Len(t)] = "\""

\* SpotifyTransformer.ESCAPED_STRING: str(t)[1:-1]
ESCAPED_STRING(t) == SubSeq(t, 2, Len(t) - 1)

\* SpotifyTransformer.NUMBER: float(t), carried in tenths; the texts of the
\* model have at most one digit after the point.
NUMBER(t) ==
    IF IsDigits(t) THEN 10 * IntValue(t)
    ELSE LET p == CHOOSE i \in DOMAIN t : t[i] = "."
         IN  10 * IntValue(SubSeq(t, 1, p - 1)) + DigitOf(t[p + 1])

\* SpotifyTransformer.SIGNED_NUMBER and VOL_DELTA: int(t)
SIGNED_NUMBER(t) ==
    IF t[1] = "-" THEN -IntValue(Tail(t))
    ELSE IF t[1] = "+" THEN IntValue(Tail(t))
    ELSE IntValue(t)

\* SpotifyTransformer.KIND_KW, MODE and LIB_MUT: str(t).lower(), one of names.
Lowered(t, names) == CHOOSE n \in names : Spell(n) = Lower(t)

\* A kind that is track whatever the text says.
KIND_KWTrack(t) == "track"

\* SpotifyTransformer.KIND_KW
KIND_KW(t) == Lowered(t, Kinds)

_query(query, kwargs) == [query |-> query] @@ kwargs

\* result.update(items[2]): the context's keys are set in the result.
play(items) ==
    (IF Len(items) > 2 THEN items[3] ELSE NoMods)
        @@ _cmd("play", [kind |-> items[1], target |-> items[2]])

pause(items) == _cmd("pause", NoMods)

resume(items) == _cmd("resume", NoMods)

queue(items) == _cmd("queue", [kind |-> items[1], targets |-> Tail(items)])

\* items[2:] holds the targets (JStr) and, when the text has one, the
\* context (JDict); f"library_{lib_action}"
library_mut(items) ==
    LET targets == SelectSeq(SubSeq(items, 3, Len(items)), LAMBDA x : x.t = "str")
        contexts == SelectSeq(SubSeq(items, 3, Len(items)), LAMBDA x : x.t = "dict")
    IN  (IF contexts # <<>> THEN contexts[1].v ELSE NoMods)
            @@ _cmd(IF items[1] = "add" THEN "library_add" ELSE "library_remove",
                    [kind |-> items[2],
                     targets |-> [i \in DOMAIN targets |-> targets[i].v]])

library_create(items) == _cmd("library_create", [kind |-> "playlist", target |-> items[1]])

library_delete(items) == _cmd("library_delete", [kind |-> "playlist", target |-> items[1]])

search(items) == _query("search", [kind |-> items[1], terms |-> Tail(items)])

info(items) == _query("info", [kind |-> items[1], target |-> items[2]])

recommend(items) ==
    IF Len(items) = 3
    THEN items[3] @@ _query("recommend", [kind |-> items[1], n |-> IntOf(items[2])])
    ELSE items[2] @@ _query("recommend", [kind |-> items[1]])

status(items) == _query("status", NoMods)

context(items) == [context_kind |-> items[1], context |-> items[2]]

library_list(items) == _query("library_list", [kind |-> items[1]])

\* SpotifyTransformer.volume, volume_rel, mode, device: the tuple (key, value).
StateModifier(key, items) == [t |-> "tuple", v |-> <<key, items[1]>>]

\* SpotifyTransformer.limit, offset: the tuple (key, int(value)).
QueryModifier(key, items) == [t |-> "tuple", v |-> <<key, IntOf(items[1])>>]

\* for key, val in modifiers: result[key] = val
RECURSIVE Merged(_, _)
Merged(result, modifiers) ==
    IF modifiers = <<>> THEN result
    ELSE Merged((modifiers[1].v[1] :> modifiers[1].v[2]) @@ result, Tail(modifiers))

\* A root that drops the modifiers.
startHeadOnly(items) ==
    IF items[1].t = "dict" THEN items[1].v ELSE [action |-> "set"]

\* SpotifyTransformer.start: the head (a dict) comes first when there is one.
start(items) ==
    IF items[1].t = "dict" THEN Merged(items[1].v, Tail(items))
    ELSE Merged([action |-> "set"], items)

(***************************************************************************)
(* The grammar (grammar.lark), as section 4.1 of the specification gives   *)
(* it.  A match is the items of the tree, transformed, and the lexemes     *)
(* left; tag tells an action head, a query head, a state modifier and a    *)
(* query modifier apart.                                                   *)
(***************************************************************************)
NoMatch == [ok |-> FALSE, tag |-> "none", items |-> <<>>, rest |-> <<>>]

Matched(tag, item, rest) == [ok |-> TRUE, tag |-> tag, items |-> <<item>>, rest |-> rest]

After(words, n) == SubSeq(words, n + 1, Len(words))

\* The keyword name, or one of names, in any case, at i.
IsKw(words, i, name) == i <= Len(words) /\ Lower(words[i]) = Spell(name)

IsAmong(words, i, names) ==
    i <= Len(words) /\ \E n \in names : Lower(words[i]) = Spell(n)

\* A target: a quoted name or a bare id of 22 letters and digits.
IsTargetAt(words, i) ==
    /\ i <= Len(words)
    /\ \/ IsQuoted(words[i])
       \/ /\ Len(words[i]) = BareIdLen
          /\ \A j \in DOMAIN words[i] : words[i][j] \in AlnumChars

\* SpotifyTransformer.BARE_ID is str(t).
Target(t) == IF IsQuoted(t) THEN ESCAPED_STRING(t) ELSE t

\* target+
RECURSIVE TargetsFrom(_, _)
TargetsFrom(words, i) ==
    IF IsTargetAt(words, i) THEN <<Target(words[i])>> \o TargetsFrom(words, i + 1)
    ELSE <<>>

\* "in" kind target, the kind one of kinds: <<the context>>, <<>> without.
ContextFrom(words, i, kinds) ==
    IF IsKw(words, i, "in") /\ IsAmong(words, i + 1, kinds) /\ IsTargetAt(words, i + 2)
    THEN <<context(<<KIND_KW(words[i + 1]), Target(words[i + 2])>>)>>
    ELSE <<>>

\* library add|remove kind target+ [in playlist name], create|delete playlist
\* name, list kind.
LibraryHead(words) ==
    CASE IsAmong(words, 2, LibMuts) /\ IsAmong(words, 3, Kinds) /\ IsTargetAt(words, 4) ->
            LET ts == TargetsFrom(words, 4)
                ctx == ContextFrom(words, 4 + Len(TargetsFrom(words, 4)), {"playlist"})
            IN  Matched("action",
                        JDict(library_mut(<<Lowered(words[2], LibMuts), KIND_KW(words[3])>>
                                              \o [i \in DOMAIN ts |-> JStr(ts[i])]
                                              \o [i \in DOMAIN ctx |-> JDict(ctx[i])])),
                        After(words, 3 + Len(ts) + 3 * Len(ctx)))
      [] IsKw(words, 2, "create") /\ IsKw(words, 3, "playlist") /\ IsTargetAt(words, 4) ->
            Matched("action", JDict(library_create(<<Target(words[4])>>)), After(words, 4))
      [] IsKw(words, 2, "delete") /\ IsKw(words, 3, "playlist") /\ IsTargetAt(words, 4) ->
            Matched("action", JDict(library_delete(<<Target(words[4])>>)), After(words, 4))
      [] IsKw(words, 2, "list") /\ IsAmong(words, 3, Kinds) ->
            Matched("query", JDict(library_list(<<KIND_KW(words[3])>>)), After(words, 3))
      [] OTHER -> NoMatch

\* recommend kind [n] in playlist name
RecommendHead(words) ==
    LET counted == Len(words) >= 3 /\ IsDecimal(words[3])
        ctx == ContextFrom(words, IF Len(words) >= 3 /\ IsDecimal(words[3]) THEN 4 ELSE 3,
                           {"playlist"})
    IN  IF ~IsAmong(words, 2, Kinds) \/ ctx = <<>> THEN NoMatch
        ELSE Matched("query",
                     JDict(recommend(<<KIND_KW(words[2])>>
                                         \o (IF counted THEN <<NUMBER(words[3])>> ELSE <<>>)
                                         \o ctx)),
                     After(words, IF counted THEN 6 ELSE 5))

\* The head of a command: every one that takes a target takes its kind first.
HeadOf(words) ==
    CASE IsKw(words, 1, "play") ->
            IF IsAmong(words, 2, Kinds) /\ IsTargetAt(words, 3)
            THEN LET ctx == ContextFrom(words, 4, Kinds)
                 IN  Matched("action",
                             JDict(play(<<KIND_KW(words[2]), Target(words[3])>> \o ctx)),
                             After(words, 3 + 3 * Len(ctx)))
            ELSE NoMatch
      [] IsKw(words, 1, "pause") -> Matched("action", JDict(pause(<<>>)), After(words, 1))
      [] IsKw(words, 1, "resume") -> Matched("action", JDict(resume(<<>>)), After(words, 1))
      [] IsKw(words, 1, "skip") ->
            IF Len(words) >= 2 /\ (IsDigits(words[2]) \/ IsDelta(words[2]))
            THEN Matched("action", JDict(skip(<<SIGNED_NUMBER(words[2])>>)), After(words, 2))
            ELSE Matched("action", JDict(skip(<<>>)), After(words, 1))
      [] IsKw(words, 1, "seek") ->
            IF Len(words) >= 2 /\ IsDecimal(words[2])
            THEN Matched("action", JDict(seek(<<NUMBER(words[2])>>)), After(words, 2))
            ELSE NoMatch
      [] IsKw(words, 1, "queue") ->
            IF IsAmong(words, 2, Kinds) /\ IsTargetAt(words, 3)
            THEN Matched("action",
                         JDict(queue(<<KIND_KW(words[2])>> \o TargetsFrom(words, 3))),
                         After(words, 2 + Len(TargetsFrom(words, 3))))
            ELSE NoMatch
      [] IsKw(words, 1, "library") -> LibraryHead(words)
      [] IsKw(words, 1, "search") ->
            IF IsAmong(words, 2, Kinds) /\ IsTargetAt(words, 3)
            THEN Matched("query",
                         JDict(search(<<KIND_KW(words[2])>> \o TargetsFrom(words, 3))),
                         After(words, 2 + Len(TargetsFrom(words, 3))))
            ELSE NoMatch
      [] IsKw(words, 1, "info") ->
            IF IsAmong(words, 2, Kinds) /\ IsTargetAt(words, 3)
            THEN Matched("query", JDict(info(<<KIND_KW(words[2]), Target(words[3])>>)),
                         After(words, 3))
            ELSE NoMatch
      [] IsKw(words, 1, "recommend") -> RecommendHead(words)
      [] IsKw(words, 1, "status") -> Matched("query", JDict(status(<<>>)), After(words, 1))
      [] OTHER -> NoMatch

\* One modifier clause: volume n, volume +n|-n, mode m, device "name" are
\* state modifiers; limit n and offset n are query modifiers.
ModifierAt(words) ==
    CASE IsKw(words, 1, "volume") /\ Len(words) >= 2 /\ IsDelta(words[2]) ->
            Matched("state", StateModifier("volume_rel", <<SIGNED_NUMBER(words[2])>>),
                    After(words, 2))
      [] IsKw(words, 1, "volume") /\ Len(words) >= 2 /\ IsDigits(words[2]) ->
            Matched("state", StateModifier("volume", <<SIGNED_NUMBER(words[2])>>),
                    After(words, 2))
      [] IsKw(words, 1, "mode") /\ IsAmong(words, 2, Modes) ->
            Matched("state", StateModifier("mode", <<Lowered(words[2], Modes)>>),
                    After(words, 2))
      [] IsKw(words, 1, "device") /\ Len(words) >= 2 /\ IsQuoted(words[2]) ->
            Matched("state", StateModifier("device", <<ESCAPED_STRING(words[2])>>),
                    After(words, 2))
      [] IsKw(words, 1, "limit") /\ Len(words) >= 2 /\ IsDecimal(words[2]) ->
            Matched("query", QueryModifier("limit", <<NUMBER(words[2])>>), After(words, 2))
      [] IsKw(words, 1, "offset") /\ Len(words) >= 2 /\ IsDecimal(words[2]) ->
            Matched("query", QueryModifier("offset", <<NUMBER(words[2])>>), After(words, 2))
      [] OTHER -> NoMatch

\* first and what follows it, when that matched too.
Joined(first, more) ==
    IF more.ok THEN [more EXCEPT !.items = first.items \o @, !.tag = first.tag]
    ELSE NoMatch

RECURSIVE Modifiers(_, _)

\* Modifiers that go with any head.
ModifiersAfterAny(one, tag) ==
    IF ~one.ok THEN NoMatch ELSE Joined(one, Modifiers(one.rest, tag))

\* one is the clause at the front; only modifiers of the class tag go on.
ModifiersAfter(one, tag) ==
    IF ~one.ok \/ one.tag # tag THEN NoMatch
    ELSE Joined(one, Modifiers(one.rest, tag))

\* modifier*: all that is left must be modifiers of the class tag.
Modifiers(words, tag) ==
    IF words = <<>> THEN [ok |-> TRUE, tag |-> tag, items |-> <<>>, rest |-> <<>>]
    ELSE ModifiersAfter(ModifierAt(words), tag)

\* start: an action head and state modifiers, a query head and query
\* modifiers, or state modifiers alone, at least one.
WithModifiers(head, words) ==
    IF head.ok
    THEN Joined(head, Modifiers(head.rest, IF head.tag = "action" THEN "state"
                                           ELSE "query"))
    ELSE IF words = <<>> THEN NoMatch
    ELSE Modifiers(words, "state")

Tree(words) == WithModifiers(HeadOf(words), words)

\* lark's UnexpectedInput: the text does not match the grammar.
UnexpectedInput == CollabError("UnexpectedInput", "no match", <<>>)

\* tree is _parser.parse(command).
Transformed(tree) ==
    IF tree.ok THEN [err |-> NoErr, ret |-> start(tree.items)]
    ELSE [err |-> UnexpectedInput, ret |-> NoMods]

parse(command) == Transformed(Tree(command))

(***************************************************************************)
(* The session (clautify/dsl/__init__.py).                                 *)
(***************************************************************************)
_VALID_COMMANDS ==
    "Syntax: verb kind target. play/queue/search/info kind \"name\"|ID, library add/remove kind target [in playlist \"name\"], pause, resume, skip, seek, status [queue|devices|history]"

\* The command as the caller wrote it, its lexemes a blank apart.
RECURSIVE Rendered(_)
Rendered(command) ==
    IF command = <<>> THEN <<>>
    ELSE Head(command) \o (IF Len(command) > 1 THEN <<" ">> ELSE <<>>)
            \o Rendered(Tail(command))

InvalidCommand(command, e) ==
    [DSLError("SyntaxError",
              <<"Invalid command: '">> \o Rendered(command)
                  \o <<"'. Valid commands: ", _VALID_COMMANDS>>, <<>>)
        EXCEPT !.cause = e]

\* A session that takes a text it cannot parse for a status query.
RunParsedAnyway(m, parsed, command, fault1, fault2) ==
    IF IsErr(parsed.err) THEN execute(m, [query |-> "status"], fault1, fault2)
    ELSE execute(m, parsed.ret, fault1, fault2)

\* parsed is what parse(command) gave or raised.
RunParsed(m, parsed, command, fault1, fault2) ==
    IF IsErr(parsed.err) THEN Raise(m, InvalidCommand(command, parsed.err))
    ELSE execute(m, parsed.ret, fault1, fault2)

\* SpotifySession.run
run(m, command, fault1, fault2) == RunParsed(m, parse(command), command, fault1, fault2)

\* The texts of the run specification.  A name as the text quotes it:
Quoted(name) == <<"\"">> \o name \o <<"\"">>

ActionHeads ==
    {<<Spell("play"), Spell("track"), Quoted(NameHit)>>,
     <<Spell("play"), <<"T", "R", "A", "C", "K">>, BareA>>,
     <<Spell("play"), Spell("track"), Quoted(NameEmpty)>>,
     <<Spell("play"), Spell("album"), Quoted(NameHit), Spell("in"), Spell("playlist"),
       Quoted(NameTwo)>>,
     <<Spell("pause")>>, <<Spell("resume")>>, <<Spell("skip")>>,
     <<Spell("skip"), <<"-", "2">>>>, <<Spell("skip"), <<"3">>>>,
     <<Spell("seek"), <<"1", "2", ".", "5">>>>, <<Spell("seek"), <<"3", "0">>>>,
     <<Spell("queue"), Spell("track"), BareA, Quoted(NameHit)>>,
     <<Spell("library"), Spell("add"), Spell("track"), Quoted(NameHit)>>,
     <<Spell("library"), Spell("remove"), Spell("artist"), BareA>>,
     <<Spell("library"), Spell("add"), Spell("track"), Quoted(NameHit), Quoted(NameTwo),
       Spell("in"), Spell("playlist"), Quoted(NameTwo)>>,
     <<Spell("library"), Spell("add"), Spell("album"), Quoted(NameHit)>>,
     <<Spell("library"), Spell("create"), Spell("playlist"), Quoted(NameHit)>>,
     <<Spell("library"), Spell("delete"), Spell("playlist"), BareA>>}

QueryHeads ==
    {<<Spell("search"), Spell("artist"), Quoted(DenName)>>,
     <<Spell("search"), Spell("track"), Quoted(NameHit), Quoted(NameTwo)>>,
     <<Spell("info"), Spell("artist"), Quoted(NameHit)>>,
     <<Spell("info"), Spell("track"), BareA>>,
     <<Spell("recommend"), Spell("track"), <<"5">>, Spell("in"), Spell("playlist"),
       Quoted(NameTwo)>>,
     <<Spell("recommend"), Spell("track"), Spell("in"), Spell("playlist"), BareA>>,
     <<Spell("status")>>,
     <<Spell("library"), Spell("list"), Spell("track")>>}

\* Heads the grammar has no rule for: a target without its kind, a context
\* without its kind, a uri, a plural kind, a kind after the term, a verb
\* without its target, and words that are no command.
BadHeads ==
    {<<Spell("play"), Quoted(NameHit)>>,
     <<Spell("play"), BareA>>,
     <<Spell("queue"), BareA>>,
     <<Spell("queue"), Quoted(NameHit), Quoted(NameTwo)>>,
     <<Spell("search"), Quoted(NameHit)>>,
     <<Spell("info"), Quoted(NameHit)>>,
     <<Spell("info"), BareA>>,
     <<Spell("play"), Spell("track"), Quoted(NameHit), Spell("in"), Quoted(NameTwo)>>,
     <<Spell("library"), Spell("add"), Quoted(NameHit)>>,
     <<Spell("play"), Spell("track"), BareUri("track", BareA)>>,
     <<Spell("search"), Spell("track") \o <<"s">>, Quoted(NameHit)>>,
     <<Spell("search"), Quoted(NameHit), Spell("track")>>,
     <<Spell("play"), Spell("track")>>,
     <<Spell("explode"), <<"a", "l", "l">>>>}

\* The modifier clauses, and the tails of none, one and two of them.
ModifierClauses ==
    {<<Spell("volume"), <<"5", "0">>>>, <<Spell("volume"), <<"7", "0">>>>,
     <<Spell("volume"), <<"+", "1", "0">>>>,
     <<Spell("mode"), <<"S", "H", "U", "F", "F", "L", "E">>>>,
     <<Spell("device"), Quoted(NameHit)>>,
     <<Spell("limit"), <<"3">>>>, <<Spell("offset"), <<"1">>>>}

ClausePairs ==
    {<<Spell("volume"), <<"5", "0">>, Spell("volume"), <<"7", "0">>>>,
     <<Spell("volume"), <<"7", "0">>, Spell("mode"), <<"S", "H", "U", "F", "F", "L", "E">>>>,
     <<Spell("device"), Quoted(NameHit), Spell("volume"), <<"+", "1", "0">>>>,
     <<Spell("limit"), <<"3">>, Spell("offset"), <<"1">>>>,
     <<Spell("limit"), <<"3">>, Spell("limit"), <<"1">>>>,
     <<Spell("mode"), Spell("repeat"), Spell("limit"), <<"3">>>>,
     <<Spell("offset"), <<"1">>, Spell("volume"), <<"5", "0">>>>,
     <<Spell("volume"), <<"5", "0">>, Spell("explode")>>,
     <<Spell("device"), Quoted(NameHit), Spell("mode"), Spell("repeat"),
       Spell("volume"), <<"7", "0">>>>,
     <<Spell("mode"), Spell("repeat"), Spell("volume"), <<"1", "5", "0">>>>}

Tails == {<<>>} \cup ModifierClauses \cup ClausePairs

Texts ==
    {h \o t : h \in ActionHeads \cup QueryHeads \cup BadHeads \cup {<<>>}, t \in Tails}

\* The live states that make a difference to a command.
LiveFor(cmd) ==
    IF DOMAIN cmd \cap {"volume_rel", "device"} # {} \/ Get(cmd, "query", "") = "status"
    THEN LiveStates \cup (IF Get(cmd, "query", "") = "status" THEN {LongLive} ELSE {})
    ELSE {DefaultLive}

\* The ceilings handed to the constructor and to the setter: below 0, 0, a
\* little over a half (no whole percentage), 1.0 and above 1.
CeilingInputs ==
    {-50 * RawVolumeMax, 0, 50 * RawVolumeMax + 1, One, 150 * RawVolumeMax}

(***************************************************************************)
(* The pagination helper (clautify/utils/pagination.py).  A dict of a      *)
(* response is a function from keys, which are texts, to values.           *)
(***************************************************************************)
JInt(n) == [t |-> "int", v |-> n]

\* str.split("."): the pieces between the dots.
Dots(path) == {i \in DOMAIN path : path[i] = "."}

DotAt(path, k) ==
    IF k = 0 THEN 0
    ELSE IF k > Cardinality(Dots(path)) THEN Len(path) + 1
    ELSE CHOOSE p \in Dots(path) : Cardinality({q \in Dots(path) : q < p}) = k - 1

Split(path) ==
    [k \in 1..(Cardinality(Dots(path)) + 1) |->
        SubSeq(path, DotAt(path, k - 1) + 1, DotAt(path, k) - 1)]

RECURSIVE _traverse(_, _)
_traverse(data, path) ==
    IF path = <<>> THEN data
    ELSE IF data.t = "dict"
         THEN _traverse(IF Head(path) \in DOMAIN data.v THEN data.v[Head(path)] ELSE JNone,
                        Tail(path))
         ELSE JNone

\* _traverse(first, total_keys) or 0
OrZero(j) == IF j.t = "int" THEN j.v ELSE 0

\* The paths of Song.paginate_songs, shortened to two keys.
TotalPath == <<"d", "a", "t", "a", ".", "t", "o", "t", "a", "l", "C", "o", "u", "n", "t">>

ItemsPath == <<"d", "a", "t", "a", ".", "i", "t", "e", "m", "s">>

\* A total that is not in the response.
Absent == [t |-> "absent"]

\* The page a query answers: its items, and the total count it reports.
Page(total, items) ==
    JDict(<<"d", "a", "t", "a">> :>
        JDict(IF total = Absent THEN <<"i", "t", "e", "m", "s">> :> items
              ELSE (<<"t", "o", "t", "a", "l", "C", "o", "u", "n", "t">> :> total) @@ (<<"i", "t", "e", "m", "s">> :> items)))

\* query_fn(limit, offset): the first page reports one total, the later
\* pages another.
query_fn(world, limit, offset) ==
    Page(IF offset = 0 THEN world.first ELSE world.later, JList(<<JInt(offset)>>))

\* The generator paginate returns: nothing is fetched before the first next.
paginate(total_path, items_path, upper_limit) ==
    [pc |-> "created", total_keys |-> Split(total_path), items_keys |-> Split(items_path),
     upper_limit |-> upper_limit, total_count |-> 0, offset |-> 0, fetched |-> <<>>,
     yielded |-> <<>>]

\* page = query_fn(upper_limit, offset); yield _traverse(page, items_keys)
Yielded(g, world, offset, pc) ==
    [g EXCEPT !.pc = pc,
              !.fetched = Append(@, <<g.upper_limit, offset>>),
              !.yielded = Append(@, _traverse(query_fn(world, g.upper_limit, offset),
                                              g.items_keys))]

\* A loop that also fetches the page at offset = total_count.
WhileOffsetInclusive(g, world) ==
    IF g.offset <= g.total_count THEN Yielded(g, world, g.offset, "loop")
    ELSE [g EXCEPT !.pc = "done"]

\* while offset < total_count
WhileOffset(g, world) ==
    IF g.offset < g.total_count THEN Yielded(g, world, g.offset, "loop")
    ELSE [g EXCEPT !.pc = "done"]

\* One next() of the generator: it runs to its next yield or to its end.
Resumed(g, world) ==
    CASE g.pc = "created" ->
            [Yielded(g, world, 0, "first")
                EXCEPT !.total_count =
                    OrZero(_traverse(query_fn(world, g.upper_limit, 0), g.total_keys))]
      [] g.pc = "first" ->
            IF g.total_count <= g.upper_limit THEN [g EXCEPT !.pc = "done"]
            ELSE WhileOffset([g EXCEPT !.offset = g.upper_limit], world)
      [] g.pc = "loop" -> WhileOffset([g EXCEPT !.offset = @ + g.upper_limit], world)
      [] OTHER -> g

\* Page sizes and totals: no total, a total of None, a negative one, and
\* totals below, at and above the multiples of the page sizes.
MaxTotal == 7

PageSizes == {1, 2, 3}

Totals == {Absent, JNone} \cup {JInt(n) : n \in -1..MaxTotal}

LaterTotals == {JInt(0), JInt(MaxTotal + 1)}

(***************************************************************************)
(* The state machine.                                                      *)
(***************************************************************************)
Machine(env) ==
    [player |-> player, handles |-> handles, closed |-> closed, song |-> song,
     artist |-> artist, maxVolume |-> maxVolume, env |-> env, fault |-> NoFault,
     log |-> <<>>, logs |-> <<>>, raised |-> <<>>, resolves |-> <<>>, err |-> NoErr,
     ret |-> <<>>, closes |-> 0, resets |-> 0, closeFails |-> FALSE, swallowed |-> 0]

\* SpotifyExecutor.__init__: the ceiling is clamped; eager construction reads
\* the player property.
InitExecutor(eager, max_volume) ==
    /\ player = IF eager THEN 1 ELSE 0
    /\ handles = IF eager THEN 1 ELSE 0
    /\ closed = {}
    /\ song = 0
    /\ artist = 0
    /\ maxVolume = Max(0, Min(One, max_volume))
    /\ last = [op |-> "init", max_volume |-> max_volume]

\* SpotifySession.__init__: an executor with the default ceiling of 1.0.
Init == \E eager \in BOOLEAN : InitExecutor(eager, One)

\* An executor constructed with any ceiling.
InitVolume ==
    \E eager \in BOOLEAN : \E c \in CeilingInputs : InitExecutor(eager, c)

\* The calls a fault may hit: as many as the attempt issues without a fault.
FaultsFor(calls, errs) ==
    {NoFault} \cup {[at |-> i, err |-> e] : i \in 1..calls, e \in errs}

\* SpotifyExecutor.execute, called by an idle caller.
Execute(cmd, env, fault1, fault2, closeFails) ==
    /\ last.op # "execute"
    /\ \E m \in {execute([Machine(env) EXCEPT !.closeFails = closeFails], cmd, fault1,
                          fault2)} :
          /\ m.handles <= MaxHandles
          /\ player' = m.player
          /\ handles' = m.handles
          /\ closed' = m.closed
          /\ song' = m.song
          /\ artist' = m.artist
          /\ UNCHANGED maxVolume
          /\ last' = [op |-> "execute", cmd |-> cmd, env |-> env, logs |-> m.logs,
                      raised |-> m.raised, resolves |-> m.resolves, err |-> m.err,
                      ret |-> IF IsErr(m.err) THEN <<>> ELSE m.ret,
                      resets |-> m.resets, closes |-> m.closes, before |-> player,
                      ceiling |-> maxVolume, swallowed |-> m.swallowed,
                      wasClosed |-> player \in closed]

\* SpotifySession.max_volume setter.
SetMaxVolume(val) ==
    /\ maxVolume' = Max(0, Min(One, val))
    /\ last' = [op |-> "max_volume", val |-> val]
    /\ UNCHANGED <<player, handles, closed, song, artist>>

\* SpotifyExecutor.close (SpotifySession.close): the slot keeps its handle.
Close ==
    \E closeFails \in BOOLEAN :
       \E m \in {close([Machine(DefaultLive) EXCEPT !.closeFails = closeFails])} :
          /\ player' = m.player
          /\ handles' = m.handles
          /\ closed' = m.closed
          /\ song' = m.song
          /\ artist' = m.artist
          /\ UNCHANGED maxVolume
          /\ last' = [op |-> "close", closes |-> m.closes, err |-> m.err, log |-> m.log,
                      before |-> player, built |-> m.handles - handles,
                      closeFails |-> closeFails, swallowed |-> m.swallowed,
                      wasClosed |-> player \in closed]

\* execute has returned: the caller takes the Result (or the error) and the
\* command is discarded.
Return ==
    /\ last.op \in {"execute", "run"}
    /\ last' = [op |-> "idle"]
    /\ UNCHANGED <<player, handles, closed, song, artist, maxVolume>>

\* The number of calls the first attempt issues when none fails.
CallsOf(cmd, env) == Len(execute(Machine(env), cmd, NoFault, NoFault).logs[1])

\* Some command of cmds, with a failing call in the first attempt raising
\* one of errs1 and, when a second attempt follows, one of errs2 in it.
ExecuteSome(cmds, errs1, errs2) ==
    /\ last.op # "execute"
    /\ \E cmd \in cmds : \E env \in LiveFor(cmd) : \E calls \in {CallsOf(cmd, env)} :
          \E fault1 \in FaultsFor(calls, errs1) :
             \E fault2 \in (IF fault1.err = WsError THEN FaultsFor(calls + 1, errs2)
                            ELSE {NoFault}) :
                \E closeFails \in (IF fault1.err = WsError /\ player # 0 THEN BOOLEAN
                                   ELSE {FALSE}) :
                   Execute(cmd, env, fault1, fault2, closeFails)

\* Retry: every failure of every call, in both attempts.
Next ==
    \/ ExecuteSome(RetryCmds, CollabErrors, CollabErrors)
    \/ Return
    \/ Close

Spec == Init /\ [][Next]_vars

\* Resolution: the commands that carry a target, with a transient failure
\* of any call of the first attempt.
NextResolve ==
    \/ ExecuteSome(ResolveCmds, {WsError}, {})
    \/ Return

SpecResolve == Init /\ [][NextResolve]_vars

\* Volume: every state modifier under every ceiling and live state, with a
\* transient failure of any call of the first attempt.
NextVolume ==
    \/ ExecuteSome(VolumeCmds, {WsError}, {})
    \/ \E c \in CeilingInputs : SetMaxVolume(c)
    \/ Return

SpecVolume == InitVolume /\ [][NextVolume]_vars

\* Dispatch: every action and query, with and without state modifiers, with
\* a transient failure of any call of the first attempt.
NextDispatch ==
    \/ ExecuteSome(DispatchCmds, {WsError}, {})
    \/ Return

SpecDispatch == Init /\ [][NextDispatch]_vars

\* SpotifySession.run, called by an idle caller: the text is parsed and the
\* command executed.
Run(command, env, fault1, fault2) ==
    /\ last.op \notin {"execute", "run"}
    /\ \E m \in {run(Machine(env), command, fault1, fault2)} :
          /\ m.handles <= MaxHandles
          /\ player' = m.player
          /\ handles' = m.handles
          /\ closed' = m.closed
          /\ song' = m.song
          /\ artist' = m.artist
          /\ UNCHANGED maxVolume
          /\ last' = [op |-> "run", text |-> command,
                      parsed |-> IF IsErr(parse(command).err) THEN <<>>
                                 ELSE <<parse(command).ret>>,
                      env |-> env, logs |-> m.logs, raised |-> m.raised,
                      resolves |-> m.resolves, err |-> m.err,
                      ret |-> IF IsErr(m.err) THEN <<>> ELSE m.ret,
                      resets |-> m.resets, closes |-> m.closes, before |-> player,
                      built |-> m.handles - handles, ceiling |-> maxVolume]

\* The faults of a text: a transient failure of the first call of its
\* command, none when it has no command.
RunFaults(parsed, env) ==
    IF IsErr(parsed.err) THEN {NoFault}
    ELSE FaultsFor(Min(1, CallsOf(parsed.ret, env)), {WsError})

\* Some text of texts, with and without a transient failure of the first
\* call of its command.
RunSome(texts) ==
    /\ last.op \notin {"execute", "run"}
    /\ \E command \in texts : \E parsed \in {parse(command)} :
          \E env \in LiveFor(parsed.ret) : \E fault1 \in RunFaults(parsed, env) :
             Run(command, env, fault1, NoFault)

\* The session: texts that parse and texts that do not.
NextRun ==
    \/ RunSome(Texts)
    \/ Return

SpecRun == Init /\ [][NextRun]_vars

\* paginate(query_fn, total_path, items_path, upper_limit), called when no
\* iteration is under way.
Paginate(upper_limit, first, later) ==
    /\ last.op = "paginate" => last.gen.pc = "done"
    /\ last' = [op |-> "paginate", world |-> [first |-> first, later |-> later],
                gen |-> paginate(TotalPath, ItemsPath, upper_limit)]
    /\ UNCHANGED <<player, handles, closed, song, artist, maxVolume>>

\* The consumer's loop asks the generator for its next page.
NextPage ==
    /\ last.op = "paginate"
    /\ last.gen.pc # "done"
    /\ last' = [last EXCEPT !.gen = Resumed(last.gen, last.world)]
    /\ UNCHANGED <<player, handles, closed, song, artist, maxVolume>>

NextPaginate ==
    \/ \E upper_limit \in PageSizes : \E first \in Totals : \E later \in LaterTotals :
          Paginate(upper_limit, first, later)
    \/ NextPage

\* The consumer iterates the generator until it is exhausted.
SpecPaginate == Init /\ [][NextPaginate]_vars /\ WF_vars(NextPage)

(***************************************************************************)
(* The retry policy of execute.  last.raised[k] is what dispatch raised in *)
(* attempt k (NoErr if nothing), last.logs[k] the calls of attempt k.      *)
(***************************************************************************)
Executed == last.op = "execute"

Attempts == Len(last.raised)

\* Attempt k constructed a Player handle.
Constructed(k) ==
    \E i \in DOMAIN last.logs[k] :
        last.logs[k][i].op = "Player" /\ last.logs[k][i].out = "none"

\* C1: when the first attempt fails with the channel's WebSocketError and the
\* second attempt raises nothing, execute resets the player slot once (closing
\* the handle it held), the second attempt constructs a fresh handle, there
\* are exactly two attempts and the caller gets a Result with status "ok".
C1_RetryOnceAfterTransient ==
    (/\ Executed
     /\ last.raised[1].type = "WebSocketError"
     /\ Attempts >= 2 => ~IsErr(last.raised[2]))
    => /\ Attempts = 2
       /\ last.resets = 1
       /\ last.closes <= 1
       /\ last.before # 0 => last.closes = 1 /\ last.before \in closed
       /\ Constructed(2)
       /\ player \notin closed \cup {0, last.before}
       /\ ~IsErr(last.err)
       /\ last.ret.status = "ok"

\* C1's case: a handle was held, the first attempt lost the channel and the
\* second went through.
C1_Witness ==
    /\ Executed
    /\ last.before # 0
    /\ last.raised = <<WsError, NoErr>>
    /\ last.cmd = [action |-> "pause", volume |-> 70]
    /\ last.ret.status = "ok"

\* C2: when the first attempt fails with an error that is not the channel's
\* WebSocketError, there is exactly one attempt, no reset and no close, and
\* the error goes to the caller at once: a DSL error raised inside dispatch
\* unchanged, any other error as the cause of the one wrapping DSL error.
C2_NoRetryOtherwise ==
    (/\ Executed
     /\ IsErr(last.raised[1])
     /\ last.raised[1].type # "WebSocketError")
    => /\ Attempts = 1
       /\ last.resets = 0
       /\ last.closes = 0
       /\ last.before # 0 => player = last.before
       /\ last.err.type = "DSLError"
       /\ last.raised[1].type = "DSLError" => last.err = last.raised[1]
       /\ last.raised[1].type # "DSLError" =>
             last.err.kind = "Wrapped" /\ last.err.cause = last.raised[1]

\* C2's case: a DSL error raised by a collaborator inside dispatch, with a
\* handle held.
C2_Witness ==
    /\ Executed
    /\ last.before # 0
    /\ last.raised = <<DSLError("Collaborator", <<"bad state">>, <<>>)>>
    /\ last.err.kind = "Collaborator"

\* C3: execute makes at most two attempts and at most one reset; when the
\* second attempt fails too, its failure goes to the caller as a DSL error,
\* whatever it was.
C3_AtMostTwoAttempts ==
    Executed =>
        /\ Attempts <= 2
        /\ Len(last.logs) = Attempts
        /\ last.resets <= 1
        /\ last.closes <= 1
        /\ Attempts = 2 /\ IsErr(last.raised[2]) =>
              /\ last.err.type = "DSLError"
              /\ \/ last.err = last.raised[2]
                 \/ last.err.cause = last.raised[2]

\* C3's case: the channel is lost in both attempts.
C3_Witness ==
    /\ Executed
    /\ last.raised = <<WsError, WsError>>
    /\ last.err.type = "DSLError"

\* C4: every error that leaves execute is a DSL error, and an error of another
\* type raised by a collaborator leaves it wrapped: the message is the type
\* name, the error's message and its nested detail, the cause the error.
C4_OnlyDSLErrorsEscape ==
    Executed /\ IsErr(last.err) =>
        /\ last.err.type = "DSLError"
        /\ last.raised[Attempts].type # "DSLError" =>
              /\ last.err.cause = last.raised[Attempts]
              /\ last.err.command = <<last.cmd>>
              /\ last.err.msg =
                    <<last.err.cause.type, ": ">> \o last.err.cause.msg
                        \o (IF last.err.cause.error = <<>> THEN <<>>
                            ELSE <<" (">> \o last.err.cause.error \o <<")">>)

\* C4's case: a collaborator's error with a nested detail, wrapped.
C4_Witness ==
    /\ Executed
    /\ last.raised = <<CollabError("SongError", "request failed", <<"HTTP 500">>)>>
    /\ last.err.type = "DSLError"
    /\ last.err.kind = "Wrapped"

(***************************************************************************)
(* Target resolution.  last.resolves holds every call of _resolve_target   *)
(* of the execution: its kind and target, the collaborator calls it made,  *)
(* and the uri it returned or the error it raised.                         *)
(***************************************************************************)
\* Exactly 22 characters, all of them ASCII letters or digits.
Alnum22(target) ==
    Len(target) = BareIdLen /\ \A i \in DOMAIN target : target[i] \in AlnumChars

\* The commands that resolve a target, and the targets they mention.
Resolving(cmd) ==
    \/ Get(cmd, "action", "") \in
          {"play", "queue", "library_add", "library_remove", "library_delete"}
    \/ Get(cmd, "query", "") \in {"info", "recommend"}

Mentioned(cmd) ==
    (IF "target" \in DOMAIN cmd THEN {cmd.target} ELSE {})
        \cup (IF "targets" \in DOMAIN cmd
              THEN {cmd.targets[i] : i \in DOMAIN cmd.targets} ELSE {})
        \cup (IF "context" \in DOMAIN cmd THEN {cmd.context} ELSE {})

\* C5: for every kind and every target of 22 ASCII letters and digits,
\* _resolve_target returns "spotify:" kind ":" target and calls neither search
\* collaborator; and every command that resolves a target (play, queue,
\* library add/remove/delete, info, recommend) resolves all it mentions.
C5_BareIdNeedsNoSearch ==
    Executed =>
        /\ \A i \in DOMAIN last.resolves :
              LET r == last.resolves[i]
              IN  Alnum22(r.target) =>
                     /\ r.calls = <<>>
                     /\ r.err = NoErr
                     /\ r.uri = <<"s", "p", "o", "t", "i", "f", "y", ":">>
                                   \o KindText(r.kind) \o <<":">> \o r.target
        /\ \A k \in DOMAIN last.logs :
              (\A t \in Mentioned(last.cmd) : Alnum22(t)) =>
                 \A i \in DOMAIN last.logs[k] : last.logs[k][i].op \notin SearchOps
        /\ Resolving(last.cmd) /\ ~IsErr(last.err) =>
              Mentioned(last.cmd) \subseteq
                 {last.resolves[i].target : i \in DOMAIN last.resolves}

\* C5's case: a track and its playlist context, both bare ids, played.
C5_Witness ==
    /\ Executed
    /\ last.cmd = [action |-> "play", kind |-> "track", target |-> BareA,
                   context_kind |-> "playlist", context |-> BareA]
    /\ ~IsErr(last.err)
    /\ Attempts = 1
    /\ Len(last.resolves) = 2
    /\ last.resolves[2].uri = BareUri("playlist", BareA)

\* What _search_and_resolve extracts from the response for a kind.
Extracted(kind, raw) ==
    IF kind = "artist"
    THEN _deep_get(raw, <<"data", "searchV2", "artists", "items">>, JList(<<>>))
    ELSE _extract_search_section(raw, kind)

IsSearch(c) == c.op \in SearchOps

\* The search calls of a resolution (the others construct a collaborator).
Searches(r) == SelectSeq(r.calls, IsSearch)

\* C6: for every target that is not a bare id (22 ASCII letters and digits),
\* _resolve_target makes exactly one search call (the artist search for kind
\* artist, the generic search otherwise, with limit 1), and when the list
\* extracted from the answer is empty or not a list it raises NoResults and
\* returns no uri.
C6_NameSearchedOnce ==
    Executed =>
        \A i \in DOMAIN last.resolves :
           LET r == last.resolves[i]
           IN  ~Alnum22(r.target) =>
                  /\ Len(Searches(r)) = 1
                  /\ Searches(r)[1].op = IF r.kind = "artist" THEN "query_artists"
                                     ELSE "query_songs"
                  /\ Searches(r)[1].arg = <<r.target, 1>>
                  /\ LET list == Extracted(r.kind, Catalog(r.target))
                     IN  Searches(r)[1].out = "none" /\ (list.t # "list" \/ list.v = <<>>) =>
                            r.err.kind = "NoResults" /\ r.uri = <<>>

(***************************************************************************)
(* Volume.  Volumes are in units of 1/(100 * 65535): v percent is          *)
(* v * RawVolumeMax, a raw device volume r is r * PercentMax.              *)
(***************************************************************************)
\* The writes of the absolute modifier in a log, and those of the relative
\* one, which follow the read of the live devices.
AbsWrites(log) ==
    {i \in DOMAIN log :
        log[i].op = "set_volume" /\ (i = 1 \/ log[i - 1].op # "device_ids")}

RelWrites(log) ==
    {i \in DOMAIN log :
        log[i].op = "set_volume" /\ i > 1 /\ log[i - 1].op = "device_ids"}

\* No collaborator call of the log failed.
AllCallsOk(log) == \A i \in DOMAIN log : log[i].out = "none"

\* The attempt got past its primary operation: it raised nothing, or one of
\* the modifiers raised, or a modifier's call failed.
ModifierOps ==
    {"set_volume", "device_ids", "set_shuffle", "repeat_track", "transfer_player"}

ReachedModifiers(k) ==
    \/ ~IsErr(last.raised[k])
    \/ last.raised[k].type = "DSLError"
          /\ last.raised[k].kind \in {"InvalidVolume", "VolumeUnavailable", "DeviceNotFound"}
    \/ /\ last.logs[k] # <<>>
       /\ last.logs[k][Len(last.logs[k])].out # "none"
       /\ last.logs[k][Len(last.logs[k])].op \in ModifierOps

\* C7: an action with an absolute volume v under the ceiling c.  In every
\* attempt: if 0 <= v <= 100 the absolute modifier, once reached, issues
\* exactly one set_volume write, of min(v/100, c); if v < 0 or v > 100 there
\* is no set_volume write at all and the attempt raises InvalidVolume unless
\* a collaborator call of the primary operation failed first.
C7_AbsoluteVolume ==
    Executed /\ "action" \in DOMAIN last.cmd /\ "volume" \in DOMAIN last.cmd =>
        \A k \in DOMAIN last.logs :
           LET log == last.logs[k]
               v == last.cmd.volume
               c == last.ceiling
           IN  IF 0 <= v /\ v <= 100
               THEN /\ Cardinality(AbsWrites(log)) <= 1
                    /\ ReachedModifiers(k) => Cardinality(AbsWrites(log)) = 1
                    /\ \A i \in AbsWrites(log) :
                          log[i].arg = <<IF v * RawVolumeMax <= c THEN v * RawVolumeMax
                                         ELSE c>>
               ELSE /\ \A i \in DOMAIN log : log[i].op # "set_volume"
                    /\ IsErr(last.raised[k])
                    /\ AllCallsOk(log) =>
                          /\ last.raised[k].type = "DSLError"
                          /\ last.raised[k].kind = "InvalidVolume"

\* C7's case: volume 70 under a ceiling of a little over a half.
C7_Witness ==
    /\ Executed
    /\ last.cmd = [action |-> "pause", volume |-> 70]
    /\ last.ceiling = 50 * RawVolumeMax + 1
    /\ ~IsErr(last.err)
    /\ \E i \in DOMAIN last.logs[1] :
          /\ last.logs[1][i].op = "set_volume"
          /\ last.logs[1][i].arg = <<50 * RawVolumeMax + 1>>

\* C8: the ceiling is always in [0, 1], the constructor and the setter both
\* clamping their argument, and every value passed to set_volume, by the
\* absolute or by the relative modifier, is in [0, ceiling] for the ceiling
\* in force at the time.
C8_CeilingBoundsEveryWrite ==
    /\ maxVolume \in 0..One
    /\ last.op = "init" =>
          maxVolume = (IF last.max_volume < 0 THEN 0
                       ELSE IF last.max_volume > One THEN One ELSE last.max_volume)
    /\ last.op = "max_volume" =>
          maxVolume = (IF last.val < 0 THEN 0
                       ELSE IF last.val > One THEN One ELSE last.val)
    /\ Executed =>
          /\ last.ceiling = maxVolume
          /\ \A k \in DOMAIN last.logs : \A i \in DOMAIN last.logs[k] :
                last.logs[k][i].op = "set_volume" =>
                   /\ 0 <= last.logs[k][i].arg[1]
                   /\ last.logs[k][i].arg[1] <= last.ceiling

\* C8's case: both modifiers write, the relative one hitting the ceiling.
C8_Witness ==
    /\ Executed
    /\ last.ceiling = 50 * RawVolumeMax + 1
    /\ "volume" \in DOMAIN last.cmd
    /\ "volume_rel" \in DOMAIN last.cmd
    /\ \E i \in RelWrites(last.logs[1]) : last.logs[1][i].arg = <<last.ceiling>>
    /\ AbsWrites(last.logs[1]) # {}

\* C9: a Result that carries a volume for a command with an absolute volume
\* reports min(requested, ceiling * 100), so never more than ceiling * 100.
C9_EchoedVolume ==
    Executed /\ ~IsErr(last.err) /\ "volume" \in DOMAIN last.ret =>
        /\ "volume" \in DOMAIN last.cmd
        /\ last.ret.volume <= last.ceiling
        /\ last.ret.volume = (IF last.cmd.volume * RawVolumeMax <= last.ceiling
                              THEN last.cmd.volume * RawVolumeMax
                              ELSE last.ceiling)

\* C9's case: set volume 70 under a ceiling of a little over a half.
C9_Witness ==
    /\ Executed
    /\ ~IsErr(last.err)
    /\ last.cmd = [action |-> "set", volume |-> 70]
    /\ last.ceiling = 50 * RawVolumeMax + 1
    /\ last.ret.volume = last.ceiling

\* The raw volumes of the active device in a live state: none when the active
\* device is not in the device list.
ActiveRaw(env) ==
    {env.devices[i].volume : i \in {j \in DOMAIN env.devices :
                                       env.devices[j].key = env.active_id}}

\* C10: an action with a relative volume delta under the ceiling c.  In every
\* attempt the modifier reads the live devices; when the read succeeds and the
\* active device is not in the list the attempt raises VolumeUnavailable and
\* there is no write of the modifier; when it is in the list, with raw volume
\* r, exactly one write follows, of clamp(r/65535 + delta/100, 0, c).
C10_RelativeVolume ==
    Executed /\ "action" \in DOMAIN last.cmd /\ "volume_rel" \in DOMAIN last.cmd =>
        \A k \in DOMAIN last.logs :
           LET log == last.logs[k]
               reads == {i \in DOMAIN log : log[i].op = "device_ids"}
               delta == last.cmd.volume_rel
               c == last.ceiling
           IN  /\ Cardinality(RelWrites(log)) <= 1
               /\ ~IsErr(last.raised[k]) => Cardinality(RelWrites(log)) = 1
               /\ \A i \in reads :
                     (\A j \in reads : i <= j) /\ log[i].out = "none" =>
                        IF ActiveRaw(last.env) = {}
                        THEN /\ i = Len(log)
                             /\ RelWrites(log) = {}
                             /\ last.raised[k].type = "DSLError"
                             /\ last.raised[k].kind = "VolumeUnavailable"
                        ELSE /\ RelWrites(log) = {i + 1}
                             /\ \E r \in ActiveRaw(last.env) :
                                   LET sum == r * PercentMax + delta * RawVolumeMax
                                   IN  log[i + 1].arg =
                                          <<IF sum < 0 THEN 0
                                            ELSE IF sum > c THEN c ELSE sum>>

\* C10's case: the active device at full volume, lowered by 60 under a
\* ceiling of a little over a half.
C10_Witness ==
    /\ Executed
    /\ last.cmd = [action |-> "pause", volume_rel |-> -60]
    /\ last.ceiling = 50 * RawVolumeMax + 1
    /\ ActiveRaw(last.env) = {RawVolumeMax}
    /\ ~IsErr(last.err)
    /\ \E i \in RelWrites(last.logs[1]) :
          last.logs[1][i].arg = <<40 * RawVolumeMax>>

(***************************************************************************)
(* Dispatch.                                                               *)
(***************************************************************************)
\* The actions _dispatch_action knows: the inline ones and the handlers.
KnownActions == {"pause", "resume", "set"} \cup ActionHandlers

\* An Action command carries the action tag; a Query command the query tag
\* and no action tag.
IsAction(cmd) == "action" \in DOMAIN cmd

IsQuery(cmd) == "query" \in DOMAIN cmd /\ "action" \notin DOMAIN cmd

\* The operations that change the playback state.
StateOps == {"set_volume", "set_shuffle", "repeat_track", "transfer_player"}

HasOp(log, op) == \E i \in DOMAIN log : log[i].op = op

OpsOf(log) == [i \in DOMAIN log |-> log[i].op]

\* C11: in every attempt of an Action command with a known action the calls
\* of the state modifiers come after all calls of the primary handler; when
\* the primary handler did not complete no modifier call is issued; when the
\* attempt raises nothing every modifier present in the command has issued
\* its calls.  A Query command issues no set_volume, set_shuffle, repeat_track
\* or transfer_player call, whatever keys its mapping carries.
C11_ModifiersAfterPrimary ==
    Executed =>
        /\ IsAction(last.cmd) /\ last.cmd.action \in KnownActions =>
              \A k \in DOMAIN last.logs :
                 LET log == last.logs[k]
                 IN  /\ \A i, j \in DOMAIN log :
                           i < j /\ log[i].op \in ModifierOps => log[j].op \in ModifierOps
                     /\ ~ReachedModifiers(k) =>
                           \A i \in DOMAIN log : log[i].op \notin ModifierOps
                     /\ ~IsErr(last.raised[k]) =>
                           /\ last.cmd.action \in {"pause", "resume"} =>
                                 HasOp(log, last.cmd.action)
                           /\ "volume" \in DOMAIN last.cmd => AbsWrites(log) # {}
                           /\ "volume_rel" \in DOMAIN last.cmd => RelWrites(log) # {}
                           /\ "mode" \in DOMAIN last.cmd =>
                                 HasOp(log, "set_shuffle") /\ HasOp(log, "repeat_track")
                           /\ "device" \in DOMAIN last.cmd => HasOp(log, "transfer_player")
        /\ IsQuery(last.cmd) =>
              \A k \in DOMAIN last.logs : \A i \in DOMAIN last.logs[k] :
                 last.logs[k][i].op \notin StateOps

\* C11's case: a play with three modifiers, on a held handle.
C11_Witness ==
    /\ Executed
    /\ last.cmd = [action |-> "play", kind |-> "track", target |-> BareA,
                   volume |-> 70, mode |-> "shuffle", device |-> DenName]
    /\ ~IsErr(last.err)
    /\ OpsOf(last.logs[1]) = <<"play_context", "set_volume", "set_shuffle",
                               "repeat_track", "device_ids", "transfer_player">>

\* The calls of an operation in a log.
CallsTo(log, op) == {i \in DOMAIN log : log[i].op = op}

\* C12: in every attempt of an Action command with mode shuffle, repeat or
\* normal there is at most one set_shuffle and at most one repeat_track call,
\* exactly one of each when the attempt raises nothing; set_shuffle gets
\* (mode = shuffle), repeat_track follows a successful set_shuffle and gets
\* (mode = repeat); the two are never both switched on.
C12_ModeSwitches ==
    (/\ Executed
     /\ IsAction(last.cmd)
     /\ last.cmd.action \in KnownActions
     /\ "mode" \in DOMAIN last.cmd
     /\ last.cmd.mode \in {"shuffle", "repeat", "normal"})
    => \A k \in DOMAIN last.logs :
          LET log == last.logs[k]
              shuffles == CallsTo(log, "set_shuffle")
              repeats == CallsTo(log, "repeat_track")
          IN  /\ Cardinality(shuffles) <= 1
              /\ Cardinality(repeats) <= 1
              /\ ~IsErr(last.raised[k]) =>
                    Cardinality(shuffles) = 1 /\ Cardinality(repeats) = 1
              /\ \A i \in shuffles : log[i].arg = <<last.cmd.mode = "shuffle">>
              /\ \A i \in repeats :
                    /\ log[i].arg = <<last.cmd.mode = "repeat">>
                    /\ i - 1 \in shuffles
                    /\ log[i - 1].out = "none"
              /\ ~\E i \in shuffles, j \in repeats :
                     log[i].arg = <<TRUE>> /\ log[j].arg = <<TRUE>>

\* C12's case: pause with mode repeat, on a held handle.
C12_Witness ==
    /\ Executed
    /\ last.cmd = [action |-> "pause", mode |-> "repeat"]
    /\ ~IsErr(last.err)
    /\ OpsOf(last.logs[1]) = <<"pause", "set_shuffle", "repeat_track">>
    /\ last.logs[1][2].arg = <<FALSE>>
    /\ last.logs[1][3].arg = <<TRUE>>

\* The read of the live devices by the device modifier: the second read of
\* the attempt when the relative volume has read them before, else the first.
DeviceReads(log, cmd) ==
    {i \in CallsTo(log, "device_ids") :
        Cardinality({j \in CallsTo(log, "device_ids") : j < i})
            = (IF "volume_rel" \in DOMAIN cmd THEN 1 ELSE 0)}

\* The live devices whose display name equals name, letter case aside.
Matches(env, name) ==
    {j \in DOMAIN env.devices : Lower(env.devices[j].name) = Lower(name)}

\* The text occurs in the message.
Contains(msg, text) ==
    \E p \in 1..Len(msg) : SubSeq(msg, p, p + Len(text) - 1) = text

\* C13: in every attempt of an Action command with a device name, once the
\* device modifier has read the live devices: if a device's display name
\* equals the name, letter case aside, exactly one transfer_player follows,
\* from this client's device id to a matching device's id; if none does, the
\* attempt raises DeviceNotFound with every live device name in its message
\* and issues no transfer_player.  No transfer is issued without that read.
C13_DeviceByExactName ==
    (/\ Executed
     /\ IsAction(last.cmd)
     /\ last.cmd.action \in KnownActions
     /\ "device" \in DOMAIN last.cmd)
    => \A k \in DOMAIN last.logs :
          LET log == last.logs[k]
              transfers == CallsTo(log, "transfer_player")
              devices == last.env.devices
          IN  /\ \A t \in transfers : t - 1 \in DeviceReads(log, last.cmd)
              /\ ~IsErr(last.raised[k]) => transfers # {}
              /\ \A i \in DeviceReads(log, last.cmd) :
                    log[i].out = "none" =>
                       IF Matches(last.env, last.cmd.device) = {}
                       THEN /\ i = Len(log)
                            /\ transfers = {}
                            /\ last.raised[k].type = "DSLError"
                            /\ last.raised[k].kind = "DeviceNotFound"
                            /\ \A j \in DOMAIN devices :
                                  Contains(last.raised[k].msg, devices[j].name)
                       ELSE /\ transfers = {i + 1}
                            /\ log[i + 1].arg[1] = last.env.device_id
                            /\ \E j \in Matches(last.env, last.cmd.device) :
                                  log[i + 1].arg[2] = devices[j].device_id

\* C13's case: "den" against the devices "Den" and "dEN".
C13_Witness ==
    /\ Executed
    /\ last.cmd = [action |-> "pause", device |-> DenName]
    /\ Len(last.env.devices) = 2
    /\ ~IsErr(last.err)
    /\ OpsOf(last.logs[1]) = <<"pause", "device_ids", "transfer_player">>
    /\ last.logs[1][3].arg = <<"dev0", "dev0">>

\* C14: a mapping with neither the action nor the query tag, and a mapping
\* with both, is refused: execute raises MalformedCommand and no collaborator
\* is called.
C14_ExactlyOneTag ==
    Executed /\ ("action" \in DOMAIN last.cmd <=> "query" \in DOMAIN last.cmd) =>
        /\ last.err.type = "DSLError"
        /\ last.err.kind = "MalformedCommand"
        /\ \A k \in DOMAIN last.logs : last.logs[k] = <<>>

\* C15: an Action command whose action has no handler raises UnknownAction,
\* a Query command whose query has no handler raises UnknownQuery; in both
\* cases there is one attempt, no collaborator call (so no state modifier
\* call and no Player construction) and the player slot is left as it was.
C15_UnknownNames ==
    Executed =>
        /\ IsAction(last.cmd) /\ last.cmd.action \notin KnownActions =>
              /\ last.err.type = "DSLError"
              /\ last.err.kind = "UnknownAction"
              /\ last.logs = <<(<<>>)>>
              /\ last.resets = 0
              /\ player = last.before
        /\ IsQuery(last.cmd) /\ last.cmd.query \notin QueryHandlers =>
              /\ last.err.type = "DSLError"
              /\ last.err.kind = "UnknownQuery"
              /\ last.logs = <<(<<>>)>>
              /\ last.resets = 0
              /\ player = last.before

\* C15's case: an unknown action with three modifiers, no handle held.
C15_Witness ==
    /\ Executed
    /\ last.cmd = [action |-> "explode", volume |-> 70, mode |-> "shuffle",
                   device |-> DenName]
    /\ last.err.kind = "UnknownAction"
    /\ last.before = 0
    /\ player = 0
    /\ handles = 0

(***************************************************************************)
(* The playback channel handle.  handles counts the handles constructed,   *)
(* player is the one in the slot (0 for none), closed those released.      *)
(***************************************************************************)
\* The slot holds one of the handles constructed or none, and every other
\* handle constructed has been released.
OneHandle ==
    /\ player \in 0..handles
    /\ \A h \in 1..handles : h # player => h \in closed

\* The execution that has just returned called the channel.
UsedChannel(done) ==
    \E k \in DOMAIN done.logs : \E i \in DOMAIN done.logs[k] :
        done.logs[k][i].op \in ChannelOps

\* An attempt of it lost the channel.
HadTransient(done) ==
    \E k \in DOMAIN done.raised : done.raised[k].type = "WebSocketError"

\* C16: the slot holds at most one handle and every other handle has been
\* released; without eager start no handle exists at first, and an execute
\* that does not use the channel constructs none; an execute without a
\* transient failure constructs at most one handle, and none when the slot
\* holds one already, which stays in the slot; a search query constructs
\* none.
C16_OneLazyHandle ==
    /\ [](OneHandle /\ (last.op = "init" /\ player = 0 => handles = 0))
    /\ [][last'.op = "execute" =>
             /\ ~UsedChannel(last') => handles' = handles
             /\ ~HadTransient(last') =>
                   /\ handles' <= handles + 1
                   /\ player # 0 => handles' = handles /\ player' = player
             /\ IsQuery(last'.cmd) /\ last'.cmd.query = "search" =>
                   handles' = handles /\ player' = player]_vars

\* C16's case: the one handle constructed so far serves another command.
C16_Witness ==
    /\ Executed
    /\ last.before # 0
    /\ player = last.before
    /\ handles = 1
    /\ closed = {}
    /\ UsedChannel(last)
    /\ ~HadTransient(last)

(***************************************************************************)
(* Library and queue.                                                      *)
(***************************************************************************)
\* The operations that change the library or a playlist's members.
LibraryOps ==
    {"like_song", "unlike_song", "follow", "unfollow", "add_to_library",
     "remove_from_library", "add_song_to_playlist", "remove_song_from_playlist"}

IsLibraryOp(c) == c.op \in LibraryOps

\* The place in the log of the n-th call among those at the places in calls.
NthOf(calls, n) == CHOOSE p \in calls : Cardinality({q \in calls : q < p}) = n - 1

LibraryCalls(log) == {i \in DOMAIN log : IsLibraryOp(log[i])}

HasContext(cmd) == Get(cmd, "context", <<>>) # <<>>

\* The operation a target of kind is routed to.
RouteOp(action, kind, inPlaylist) ==
    IF inPlaylist
    THEN IF action = "library_add" THEN "add_song_to_playlist"
         ELSE "remove_song_from_playlist"
    ELSE CASE kind = "track" ->
                 IF action = "library_add" THEN "like_song" ELSE "unlike_song"
           [] kind = "artist" ->
                 IF action = "library_add" THEN "follow" ELSE "unfollow"
           [] kind = "playlist" ->
                 IF action = "library_add" THEN "add_to_library"
                 ELSE "remove_from_library"

\* A uri some resolution of the execution returned for the target.
ResolvedTo(target, kind, uri) ==
    \E i \in DOMAIN last.resolves :
        /\ last.resolves[i].target = target
        /\ last.resolves[i].kind = kind
        /\ last.resolves[i].err = NoErr
        /\ last.resolves[i].uri = uri

\* C17: library add/remove, kind album without a context aside.  In every
\* attempt the n-th library call is for the n-th target and is the call the
\* route names: with a context the playlist-membership call, on the playlist
\* whose bare id the context resolved to; otherwise like/unlike for a track,
\* follow/unfollow for an artist, add/remove-from-library for a playlist.  The
\* call gets the bare id of the uri the target resolved to, never the uri;
\* there are no more library calls than targets, and as many when the attempt
\* raises nothing.
C17_LibraryRouting ==
    (/\ Executed
     /\ IsAction(last.cmd)
     /\ last.cmd.action \in {"library_add", "library_remove"}
     /\ {"kind", "targets"} \subseteq DOMAIN last.cmd
     /\ last.cmd.kind # "album" \/ HasContext(last.cmd))
    => \A k \in DOMAIN last.logs :
          LET log == last.logs[k]
              calls == LibraryCalls(log)
              kind == last.cmd.kind
          IN  /\ Cardinality(calls) <= Len(last.cmd.targets)
              /\ ~IsErr(last.raised[k]) => Cardinality(calls) = Len(last.cmd.targets)
              /\ \A n \in 1..Cardinality(calls) :
                    LET p == NthOf(calls, n)
                        target == last.cmd.targets[n]
                    IN  /\ log[p].op = RouteOp(last.cmd.action, kind, HasContext(last.cmd))
                        /\ IF HasContext(last.cmd)
                           THEN /\ ResolvedTo(target, kind, UriPrefix(kind) \o log[p].arg[1])
                                /\ log[p - 2].op = "PrivatePlaylist"
                                /\ log[p - 1].op = "Song"
                                /\ log[p - 1].arg = log[p - 2].arg
                                /\ ResolvedTo(last.cmd.context, "playlist",
                                              UriPrefix("playlist") \o log[p - 2].arg[1])
                           ELSE IF kind = "playlist"
                           THEN /\ log[p].arg = <<>>
                                /\ log[p - 1].op = "PrivatePlaylist"
                                /\ ResolvedTo(target, kind,
                                              UriPrefix(kind) \o log[p - 1].arg[1])
                           ELSE ResolvedTo(target, kind, UriPrefix(kind) \o log[p].arg[1])

\* C17's case: one track by name, found by the search, liked once by its
\* bare id.
C17_Witness ==
    /\ Executed
    /\ last.cmd = [action |-> "library_add", kind |-> "track", targets |-> <<NameHit>>]
    /\ ~IsErr(last.err)
    /\ last.resolves[1].uri = BareUri("track", FoundId)
    /\ Cardinality(CallsTo(last.logs[1], "like_song")) = 1
    /\ \A i \in CallsTo(last.logs[1], "like_song") : last.logs[1][i].arg = <<FoundId>>

\* Library add/remove of albums, with targets and without a context.
AlbumLibrary(cmd) ==
    /\ IsAction(cmd)
    /\ cmd.action \in {"library_add", "library_remove"}
    /\ {"kind", "targets"} \subseteq DOMAIN cmd
    /\ cmd.kind = "album"
    /\ cmd.targets # <<>>
    /\ ~HasContext(cmd)

\* C18 as stated: library add/remove of albums without a context raises
\* Unsupported and makes no library call, whatever the targets, when no
\* collaborator call fails.
C18_AlbumUnsupported ==
    (/\ Executed
     /\ AlbumLibrary(last.cmd)
     /\ \A k \in DOMAIN last.logs : AllCallsOk(last.logs[k]))
    => /\ last.err.type = "DSLError"
       /\ last.err.kind = "Unsupported"
       /\ \A k \in DOMAIN last.logs : LibraryCalls(last.logs[k]) = {}

\* C18 amended: every attempt of a library add/remove of albums without a
\* context resolves the first target only and makes no library call; it
\* raises Unsupported when that target resolves, and what the resolution
\* raised when it does not.
C18_AlbumUnsupportedOnceResolved ==
    Executed /\ AlbumLibrary(last.cmd) =>
        /\ Len(last.resolves) = Attempts
        /\ \A k \in DOMAIN last.logs :
              /\ LibraryCalls(last.logs[k]) = {}
              /\ last.resolves[k].target = last.cmd.targets[1]
              /\ IsErr(last.raised[k])
              /\ IF last.resolves[k].err = NoErr
                 THEN /\ last.raised[k].type = "DSLError"
                      /\ last.raised[k].kind = "Unsupported"
                 ELSE last.raised[k] = last.resolves[k].err

\* C18's case: three albums by bare id; the first one ends the command.
C18_Witness ==
    /\ Executed
    /\ last.cmd = [action |-> "library_add", kind |-> "album",
                   targets |-> <<BareA, BareA, BareA>>]
    /\ last.err.kind = "Unsupported"
    /\ Len(last.resolves) = 1
    /\ last.logs = <<(<<>>)>>

\* The targets among the first n that are names, to be searched for.
NamesAmong(targets, n) == {j \in 1..n : ~Alnum22(targets[j])}

\* The call before the one at p, the construction of the channel's handle
\* aside (it happens at the first use of the channel).
Before(log, p) ==
    CHOOSE q \in 1..(p - 1) :
        /\ log[q].op # "Player"
        /\ \A o \in (q + 1)..(p - 1) : log[o].op = "Player"

\* C19: queue with a kind other than track raises UnsupportedQueueKind with
\* no target resolved and no collaborator called.  With kind track, in every
\* attempt the n-th add_to_queue call enqueues the uri the n-th target
\* resolved to; a name is searched for right before it is enqueued, and only
\* the targets up to the n-th have been searched for by then; there are no
\* more enqueues than targets, and as many when the attempt raises nothing.
C19_QueueInOrder ==
    (/\ Executed
     /\ IsAction(last.cmd)
     /\ last.cmd.action = "queue"
     /\ {"kind", "targets"} \subseteq DOMAIN last.cmd)
    => IF last.cmd.kind # "track"
       THEN /\ last.err.type = "DSLError"
            /\ last.err.kind = "UnsupportedQueueKind"
            /\ last.resolves = <<>>
            /\ last.logs = <<(<<>>)>>
       ELSE \A k \in DOMAIN last.logs :
               LET log == last.logs[k]
                   enqueues == CallsTo(log, "add_to_queue")
                   targets == last.cmd.targets
               IN  /\ Cardinality(enqueues) <= Len(targets)
                   /\ ~IsErr(last.raised[k]) => Cardinality(enqueues) = Len(targets)
                   /\ \A n \in 1..Cardinality(enqueues) :
                         LET p == NthOf(enqueues, n)
                         IN  /\ ResolvedTo(targets[n], "track", log[p].arg[1])
                             /\ ~Alnum22(targets[n]) =>
                                   /\ log[Before(log, p)].op = "query_songs"
                                   /\ log[Before(log, p)].arg[1] = targets[n]
                             /\ Cardinality({q \in CallsTo(log, "query_songs") : q < p})
                                   = Cardinality(NamesAmong(targets, n))

\* C19's case: a name, a bare id and another name, enqueued in that order.
C19_Witness ==
    /\ Executed
    /\ last.cmd = [action |-> "queue", kind |-> "track",
                   targets |-> <<NameHit, BareA, NameTwo>>]
    /\ ~IsErr(last.err)
    /\ Attempts = 1
    /\ SelectSeq(OpsOf(last.logs[1]), LAMBDA op : op \in {"query_songs", "add_to_queue"})
          = <<"query_songs", "add_to_queue", "add_to_queue", "query_songs",
              "add_to_queue">>
    /\ LET enqueues == CallsTo(last.logs[1], "add_to_queue")
       IN  last.logs[1][NthOf(enqueues, 2)].arg = <<BareUri("track", BareA)>>

(***************************************************************************)
(* Skip.                                                                   *)
(***************************************************************************)
\* C20: skip with the count n, 1 when the mapping has none.  In every
\* attempt: for n >= 0 there is no skip_prev call and at most n skip_next
\* calls, exactly n once the handler has completed; for n < 0 there is no
\* skip_next call and at most -n skip_prev calls, exactly -n once the handler
\* has completed.  The parser's skip gives the count 1 to a text without a
\* count and the count of the text otherwise.
C20_SkipCount ==
    /\ skip(<<>>) = [action |-> "skip", n |-> 1]
    /\ \A items \in SkipItems \ {<<>>} : skip(items) = [action |-> "skip", n |-> items[1]]
    /\ Executed /\ IsAction(last.cmd) /\ last.cmd.action = "skip" =>
          \A k \in DOMAIN last.logs :
             LET log == last.logs[k]
                 n == IF "n" \in DOMAIN last.cmd THEN last.cmd.n ELSE 1
                 nexts == Cardinality(CallsTo(log, "skip_next"))
                 prevs == Cardinality(CallsTo(log, "skip_prev"))
             IN  IF n >= 0
                 THEN /\ prevs = 0
                      /\ nexts <= n
                      /\ ReachedModifiers(k) => nexts = n
                 ELSE /\ nexts = 0
                      /\ prevs <= -n
                      /\ ReachedModifiers(k) => prevs = -n

\* C20's case: "skip -2" as parsed, on a held handle.
C20_Witness ==
    /\ Executed
    /\ last.cmd = skip(<<-2>>)
    /\ ~IsErr(last.err)
    /\ OpsOf(last.logs[1]) = <<"skip_prev", "skip_prev">>

(***************************************************************************)
(* Seek.                                                                   *)
(***************************************************************************)
\* The whole seconds of a seek command's position.
WholeSeconds(cmd) == IntOf(cmd.position_s)

\* C21: seek takes its argument as seconds.  In every attempt there is at
\* most one seek_to call, exactly one once the handler has completed, and its
\* argument is the whole seconds of the position times 1000; a Result echoes
\* the whole seconds as position_s.  The parser's seek carries the position
\* of the text as position_s.
C21_SeekInSeconds ==
    /\ \A p \in SeekPositions : seek(<<p>>) = [action |-> "seek", position_s |-> p]
    /\ Executed /\ IsAction(last.cmd) /\ last.cmd.action = "seek"
          /\ "position_s" \in DOMAIN last.cmd =>
          /\ \A k \in DOMAIN last.logs :
                LET seeks == CallsTo(last.logs[k], "seek_to")
                IN  /\ Cardinality(seeks) <= 1
                    /\ ReachedModifiers(k) => Cardinality(seeks) = 1
                    /\ \A p \in seeks :
                          last.logs[k][p].arg = <<WholeSeconds(last.cmd) * MsPerSecond>>
          /\ ~IsErr(last.err) =>
                /\ last.ret.status = "ok"
                /\ last.ret.action = "seek"
                /\ last.ret.position_s = WholeSeconds(last.cmd)

\* C21's case: "seek 12.5" as parsed, on a held handle: one seek to 12000 ms.
C21_Witness ==
    /\ Executed
    /\ last.cmd = seek(<<125>>)
    /\ ~IsErr(last.err)
    /\ Attempts = 1
    /\ OpsOf(last.logs[1]) = <<"seek_to">>
    /\ last.logs[1][1].arg = <<12000>>
    /\ last.ret.position_s = 12

(***************************************************************************)
(* Play.                                                                   *)
(***************************************************************************)
\* The play calls of an attempt.
PlayCalls(log) == CallsTo(log, "play_track") \cup CallsTo(log, "play_context")

\* How many of the target and the context of a play command the resolver
\* takes for names.
PlayNames(cmd) ==
    (IF IsBareId(cmd.target) THEN 0 ELSE 1)
        + (IF HasContext(cmd) /\ ~IsBareId(cmd.context) THEN 1 ELSE 0)

\* C22: play with a kind and a target.  In every attempt there is at most one
\* play call, exactly one when the attempt raises nothing.  With a context it
\* is play_track, on the uri the target resolved to and the uri the context
\* resolved to under its kind, and there is no play_context call; without a
\* context it is play_context, on the uri the target resolved to, and there
\* is no play_track call.  Every search of the attempt comes before the play
\* call, one for each name among target and context.
C22_PlayRouting ==
    (/\ Executed
     /\ IsAction(last.cmd)
     /\ last.cmd.action = "play"
     /\ {"kind", "target"} \subseteq DOMAIN last.cmd)
    => \A k \in DOMAIN last.logs :
          LET log == last.logs[k]
              cmd == last.cmd
          IN  /\ Cardinality(PlayCalls(log)) <= 1
              /\ ~IsErr(last.raised[k]) => Cardinality(PlayCalls(log)) = 1
              /\ IF HasContext(cmd)
                 THEN /\ CallsTo(log, "play_context") = {}
                      /\ \A p \in CallsTo(log, "play_track") :
                            /\ Len(log[p].arg) = 2
                            /\ ResolvedTo(cmd.target, cmd.kind, log[p].arg[1])
                            /\ ResolvedTo(cmd.context, cmd.context_kind, log[p].arg[2])
                 ELSE /\ CallsTo(log, "play_track") = {}
                      /\ \A p \in CallsTo(log, "play_context") :
                            /\ Len(log[p].arg) = 1
                            /\ ResolvedTo(cmd.target, cmd.kind, log[p].arg[1])
              /\ \A p \in PlayCalls(log) :
                    /\ \A q \in DOMAIN log : IsSearch(log[q]) => q < p
                    /\ Cardinality({q \in DOMAIN log : IsSearch(log[q])})
                          = PlayNames(cmd)

\* C22's case: a track name played in a playlist name: two searches, then
\* one play_track on the two uris found.
C22_Witness ==
    /\ Executed
    /\ last.cmd = [action |-> "play", kind |-> "track", target |-> NameHit,
                   context_kind |-> "playlist", context |-> NameTwo]
    /\ ~IsErr(last.err)
    /\ Attempts = 1
    /\ SelectSeq(OpsOf(last.logs[1]),
                 LAMBDA op : op \in SearchOps \cup {"play_track", "play_context"})
          = <<"query_songs", "query_songs", "play_track">>
    /\ \E p \in CallsTo(last.logs[1], "play_track") :
          last.logs[1][p].arg
             = <<BareUri("track", FoundId), BareUri("playlist", FoundId)>>

\* Some attempt searched for the name.
SearchedFor(name) ==
    \E k \in DOMAIN last.logs : \E q \in DOMAIN last.logs[k] :
        IsSearch(last.logs[k][q]) /\ last.logs[k][q].arg[1] = name

\* C23: the Result of a play carries resolved_uri only when its target is a
\* name that was resolved through a search; for a target of 22 ASCII letters
\* and digits the Result carries no resolved_uri.
C23_ResolvedUriOnlyForNames ==
    (/\ Executed
     /\ IsAction(last.cmd)
     /\ last.cmd.action = "play"
     /\ ~IsErr(last.err))
    => /\ "resolved_uri" \in DOMAIN last.ret =>
             ~Alnum22(last.cmd.target) /\ SearchedFor(last.cmd.target)
       /\ Alnum22(last.cmd.target) => "resolved_uri" \notin DOMAIN last.ret

(***************************************************************************)
(* Search.                                                                 *)
(***************************************************************************)
\* The top result of an artist search for the term: <<item>>, or <<>> when
\* the answer lists nothing.
TopArtist(term) ==
    LET items == Extracted("artist", Catalog(term))
    IN  IF items.t = "list" /\ items.v # <<>> THEN <<items.v[1]>> ELSE <<>>

\* The display name and the uri of a search item, "" when it has none.
DisplayName(item) == _deep_get(item, <<"data", "profile", "name">>, JStr(<<>>))

UriOf(item) == _deep_get(item, <<"data", "uri">>, JStr(<<>>))

\* The top result is named like the only term of an artist search.
ExactArtist(cmd) ==
    /\ cmd.kind = "artist"
    /\ Len(cmd.terms) = 1
    /\ TopArtist(cmd.terms[1]) # <<>>
    /\ DisplayName(TopArtist(cmd.terms[1])[1]).t = "str"
    /\ Lower(DisplayName(TopArtist(cmd.terms[1])[1]).v) = Lower(cmd.terms[1])

\* ... and carries a uri that is not empty.
ExactArtistWithUri(cmd) ==
    /\ ExactArtist(cmd)
    /\ UriOf(TopArtist(cmd.terms[1])[1]).t = "str"
    /\ UriOf(TopArtist(cmd.terms[1])[1]).v # <<>>

\* The get_artist calls of all attempts.
InfoCalls ==
    {<<k, p>> \in UNION {{k} \X DOMAIN last.logs[k] : k \in DOMAIN last.logs} :
        last.logs[k][p].op = "get_artist"}

\* A search command that returned.
SearchReturned ==
    /\ Executed
    /\ IsQuery(last.cmd)
    /\ last.cmd.query = "search"
    /\ {"kind", "terms"} \subseteq DOMAIN last.cmd
    /\ ~IsErr(last.err)

\* The actions that resolve targets issue no get_artist call.
ResolutionNotPromoted ==
    (/\ Executed
     /\ IsAction(last.cmd)
     /\ last.cmd.action \in {"play", "queue", "library_add", "library_remove"})
    => InfoCalls = {}

\* The Result is the promoted one when promote holds, the ranked list
\* otherwise.
PromotedIff(promote) ==
    IF promote
    THEN /\ last.ret.query = "info"
         /\ last.ret.kind = "artist"
         /\ last.ret.target = DisplayName(TopArtist(last.cmd.terms[1])[1]).v
         /\ \E c \in InfoCalls :
               /\ c[1] = Attempts
               /\ last.logs[c[1]][c[2]].arg
                     = <<extract_spotify_id(UriOf(TopArtist(last.cmd.terms[1])[1]).v,
                                            "artist")>>
               /\ \A d \in InfoCalls : d[1] = Attempts => d = c
    ELSE /\ last.ret.query = "search"
         /\ last.ret.kind = last.cmd.kind
         /\ last.ret.terms = last.cmd.terms
         /\ InfoCalls = {}

StatusReturned ==
    /\ Executed
    /\ IsQuery(last.cmd)
    /\ last.cmd.query = "status"
    /\ ~IsErr(last.err)

StatusLimit == Get(last.cmd, "limit", 5)

\* The Result of status bundles the state, the queue, the devices and the
\* history, and echoes the limit.
StatusBundled ==
    /\ {"status", "query", "limit", "now_playing", "queue", "devices", "history"}
          = DOMAIN last.ret
    /\ last.ret.status = "ok"
    /\ last.ret.query = "status"
    /\ last.ret.limit = StatusLimit
    /\ last.ret.now_playing = "state"

\* part is the first entries of whole, as many as the limit lets through.
Capped(part, whole, limit) ==
    /\ Len(part) = Min(limit, Len(whole))
    /\ part = SubSeq(whole, 1, Len(part))

\* C25 as amended: the Result of status bundles the current state, the
\* queue, the device list and the history; for a limit that is not negative
\* (the requested one, or 5) the queue and the history hold the first limit
\* entries the channel has, and never more than limit; the device list is the
\* channel's whole list, whatever the limit.
C25_QueueAndHistoryCapped ==
    StatusReturned =>
        /\ StatusBundled
        /\ last.ret.devices = last.env.devices
        /\ StatusLimit >= 0 =>
              /\ Capped(last.ret.queue, last.env.queue, StatusLimit)
              /\ Capped(last.ret.history, last.env.history, StatusLimit)

\* C25: the Result of status bundles the current state, the queue, the
\* device list and the history, and each of the queue, the device list and
\* the history holds at most limit entries (the requested limit, or 5).
C25_AllCapped ==
    StatusReturned =>
        /\ StatusBundled
        /\ Len(last.ret.queue) <= StatusLimit
        /\ Len(last.ret.devices) <= StatusLimit
        /\ Len(last.ret.history) <= StatusLimit

\* C25's case: status without a limit on a channel with six songs queued,
\* seven played and two devices: five, five and two come back.
C25_Witness ==
    /\ StatusReturned
    /\ last.cmd = [query |-> "status"]
    /\ last.env = LongLive
    /\ last.ret.queue = <<"q1", "q2", "q3", "q4", "q5">>
    /\ Len(last.ret.history) = 5
    /\ Len(last.ret.devices) = 2

(***************************************************************************)
(* Results.                                                                *)
(***************************************************************************)
\* C29: whatever execute returns, for every action and every query, is a
\* mapping with a status field whose value is "ok"; an execute that fails
\* returns nothing and raises a DSLError.
C29_ResultsAreOk ==
    Executed =>
        IF IsErr(last.err)
        THEN last.err.type = "DSLError" /\ last.ret = <<>>
        ELSE "status" \in DOMAIN last.ret /\ last.ret.status = "ok"

\* C29's case: a query that returned, after a first attempt that failed.
C29_Witness ==
    /\ Executed
    /\ IsQuery(last.cmd)
    /\ last.cmd.query = "status"
    /\ Attempts = 2
    /\ ~IsErr(last.err)
    /\ last.ret.status = "ok"

(***************************************************************************)
(* Parsing and the session's run.                                          *)
(***************************************************************************)
Ran == last.op = "run"

\* parse refused the text: run raised its error.
Rejected == Ran /\ last.parsed = <<>>

RejectedAsSyntax ==
    /\ Rejected
    /\ last.err.type = "DSLError"
    /\ last.err.kind = "SyntaxError"
    /\ last.err.cause.type = "UnexpectedInput"

\* The text starts with the verb of a query, of an action.
QueryHeaded(text) ==
    \/ IsAmong(text, 1, {"search", "info", "recommend", "status"})
    \/ IsKw(text, 1, "library") /\ IsKw(text, 2, "list")

ActionHeaded(text) ==
    \/ IsAmong(text, 1, {"play", "pause", "resume", "skip", "seek", "queue"})
    \/ IsKw(text, 1, "library") /\ IsAmong(text, 2, {"add", "remove", "create", "delete"})

StateWords == {"volume", "mode", "device"}

QueryWords == {"limit", "offset"}

\* The positions after the verb where the text has one of the words.
ClausesOf(text, words) == {i \in DOMAIN text : i > 1 /\ IsAmong(text, i, words)}

\* C26: a text with the head of a query and a volume, mode or device clause
\* after it, and a text with the head of an action and a limit or offset
\* clause after it, is refused by parse (run raises the syntax error); and no
\* Command parse produces carries the query tag with volume, volume_rel, mode
\* or device, nor the action tag with limit or offset.
C26_CompositionRule ==
    Ran =>
        /\ QueryHeaded(last.text) /\ ClausesOf(last.text, StateWords) # {}
              => RejectedAsSyntax
        /\ ActionHeaded(last.text) /\ ClausesOf(last.text, QueryWords) # {}
              => RejectedAsSyntax
        /\ \A i \in DOMAIN last.parsed :
              /\ "query" \in DOMAIN last.parsed[i]
                    => DOMAIN last.parsed[i] \cap StateModifierKeys = {}
              /\ "action" \in DOMAIN last.parsed[i]
                    => DOMAIN last.parsed[i] \cap QueryWords = {}

\* C26's case: search artist "den" volume 70 is refused.
C26_Witness ==
    /\ RejectedAsSyntax
    /\ last.text = <<Spell("search"), Spell("artist"), Quoted(DenName), Spell("volume"),
                     <<"7", "0">>>>

\* Where the text names the kind: after the verb, after the library verb.
KindAt(text) == IF IsKw(text, 1, "library") THEN 3 ELSE 2

\* C27: play, queue, search and info followed by a target instead of a kind,
\* and "in" followed by a target instead of a kind, are refused by parse; the
\* kind of a Command parse produces is the kind the text names after the verb
\* (in lower case), and its context kind the one the text names after "in".
C27_KindMandatory ==
    Ran =>
        /\ IsAmong(last.text, 1, {"play", "queue", "search", "info"})
              /\ IsTargetAt(last.text, 2) => RejectedAsSyntax
        /\ (\E i \in DOMAIN last.text :
               IsKw(last.text, i, "in") /\ IsTargetAt(last.text, i + 1))
              => RejectedAsSyntax
        /\ \A c \in DOMAIN last.parsed :
              /\ "kind" \in DOMAIN last.parsed[c] =>
                    KindText(last.parsed[c].kind) = Lower(last.text[KindAt(last.text)])
              /\ "context_kind" \in DOMAIN last.parsed[c] =>
                    \E i \in DOMAIN last.text :
                       /\ IsKw(last.text, i, "in")
                       /\ KindText(last.parsed[c].context_kind) = Lower(last.text[i + 1])
                       /\ last.parsed[c].context = Target(last.text[i + 2])

\* C27's case: play "Den", a name without its kind, is refused.
C27_Witness ==
    /\ RejectedAsSyntax
    /\ last.text = <<Spell("play"), Quoted(NameHit)>>

\* The first modifier clause of the text, past its end when it has none.
FirstClause(text) ==
    IF \E i \in DOMAIN text : IsAmong(text, i, StateWords \cup QueryWords)
    THEN CHOOSE i \in DOMAIN text :
            /\ IsAmong(text, i, StateWords \cup QueryWords)
            /\ \A j \in 1..(i - 1) : ~IsAmong(text, j, StateWords \cup QueryWords)
    ELSE Len(text) + 1

\* The Command of the head alone, {action: set} when the text has no head.
HeadCommand(text) ==
    IF FirstClause(text) = 1 THEN [action |-> "set"]
    ELSE parse(SubSeq(text, 1, FirstClause(text) - 1)).ret

\* The clauses of a text that parses, the key of the clause at i and its
\* value.
Clauses(text) == {i \in DOMAIN text : IsAmong(text, i, StateWords \cup QueryWords)}

KeyOf(text, i) ==
    IF IsKw(text, i, "volume")
    THEN IF IsDelta(text[i + 1]) THEN "volume_rel" ELSE "volume"
    ELSE Lowered(text[i], StateWords \cup QueryWords)

ValueOf(text, i) ==
    CASE IsKw(text, i, "volume") -> SIGNED_NUMBER(text[i + 1])
      [] IsKw(text, i, "mode") -> Lowered(text[i + 1], Modes)
      [] IsKw(text, i, "device") -> ESCAPED_STRING(text[i + 1])
      [] OTHER -> IntOf(NUMBER(text[i + 1]))

\* cmd is base and the clauses of the text, each under its key, the last
\* clause of a key giving its value.
Extends(cmd, base, text) ==
    /\ \A k \in DOMAIN base : k \in DOMAIN cmd /\ cmd[k] = base[k]
    /\ DOMAIN cmd = DOMAIN base \cup {KeyOf(text, i) : i \in Clauses(text)}
    /\ \A i \in Clauses(text) :
          (\A j \in Clauses(text) : j > i => KeyOf(text, j) # KeyOf(text, i))
             => cmd[KeyOf(text, i)] = ValueOf(text, i)

\* C28: a Command parse produces carries the action tag or the query tag
\* and not both; it is the Command of the text's head alone, every field as
\* it is there, and one more field for every modifier of the text, under the
\* modifier's key; for a text of modifiers alone the head's Command is
\* {action: set}.
C28_HeadPlusModifiers ==
    Ran =>
        \A c \in DOMAIN last.parsed :
            /\ ("action" \in DOMAIN last.parsed[c]) # ("query" \in DOMAIN last.parsed[c])
            /\ Extends(last.parsed[c], HeadCommand(last.text), last.text)
            /\ FirstClause(last.text) = 1 => last.parsed[c].action = "set"

\* C28's case: play track "Den" volume 70 mode SHUFFLE.
C28_Witness ==
    /\ Ran
    /\ last.text = <<Spell("play"), Spell("track"), Quoted(NameHit), Spell("volume"),
                     <<"7", "0">>, Spell("mode"), <<"S", "H", "U", "F", "F", "L", "E">>>>
    /\ last.parsed = <<[action |-> "play", kind |-> "track", target |-> NameHit,
                        volume |-> 70, mode |-> "shuffle"]>>

\* C30: run on a text that parse refuses raises a DSLError whose message
\* ends with the usage summary; no collaborator is called, no target is
\* resolved, no handle is constructed and the player slot is as it was.
C30_RejectedTextNotExecuted ==
    Rejected =>
        /\ last.err.type = "DSLError"
        /\ last.err.msg[Len(last.err.msg)] = _VALID_COMMANDS
        /\ last.err.msg[1] = "Invalid command: '"
        /\ last.ret = <<>>
        /\ last.logs = <<>>
        /\ last.resolves = <<>>
        /\ last.built = 0
        /\ player = last.before

\* C30's case: "explode all" on a session that holds no handle.
C30_Witness ==
    /\ Rejected
    /\ last.text = <<Spell("explode"), <<"a", "l", "l">>>>
    /\ last.err.msg[Len(last.err.msg)] = _VALID_COMMANDS
    /\ player = 0
    /\ handles = 0

(***************************************************************************)
(* Releasing and tearing down the playback channel.                        *)
(***************************************************************************)
CloseCalled == last.op = "close"

\* C31: close() on a session whose player slot is empty closes nothing,
\* calls no collaborator and constructs no handle; on a session with a handle
\* in the slot it closes that handle, once; and close() raises nothing, also
\* when closing the handle fails.
C31_CloseReleasesIfConstructed ==
    CloseCalled =>
        /\ last.err = NoErr
        /\ last.log = <<>>
        /\ last.built = 0
        /\ last.before = 0 => last.closes = 0
        /\ last.before # 0 => last.closes = 1 /\ last.before \in closed
        /\ last.swallowed = IF last.before # 0 /\ last.closeFails THEN 1 ELSE 0

\* C31's case: close() on a session with a handle whose closing fails.
C31_Witness ==
    /\ CloseCalled
    /\ last.before # 0
    /\ last.closeFails
    /\ last.swallowed = 1
    /\ last.err = NoErr

\* Attempt k constructed the song handle, the artist handle.
SongConstructed(k) ==
    \E i \in DOMAIN last.logs[k] :
        last.logs[k][i].op = "Song" /\ last.logs[k][i].out = "none"

ArtistConstructed(k) ==
    \E i \in DOMAIN last.logs[k] :
        last.logs[k][i].op = "Artist" /\ last.logs[k][i].out = "none"

\* The first attempt failed in the construction of the first handle.
FirstHandleFailed ==
    /\ last.before = 0
    /\ last.logs[1] # <<>>
    /\ last.logs[1][1].op = "Player"
    /\ last.logs[1][1].out = "WebSocketError"

\* The player slot held a handle when the first attempt ended.
HeldAtTeardown == last.before # 0 \/ Constructed(1)

\* C32: the teardown before a second attempt is a no-op on an empty player
\* slot; on a slot with a handle it closes that handle once, a failure of
\* the closing swallowed, and empties the slot, so that the handle of the
\* slot afterwards is a new one; a song or artist handle the first attempt
\* constructed is still there in the second; and after a transient failure
\* in the construction of the first handle the second attempt constructs a
\* handle and runs as a first one would.
C32_TeardownIdempotent ==
    Executed /\ Attempts = 2 =>
        /\ last.resets = 1
        /\ ~HeldAtTeardown => last.closes = 0 /\ last.swallowed = 0
        /\ HeldAtTeardown =>
              /\ last.closes = 1
              /\ last.before # 0 => last.before \in closed /\ player # last.before
              /\ player \notin closed
              /\ player # 0 => Constructed(2)
        /\ last.err.type # "OSError"
        /\ SongConstructed(1) => song = 1 /\ ~SongConstructed(2)
        /\ ArtistConstructed(1) => artist = 1 /\ ~ArtistConstructed(2)
        /\ FirstHandleFailed =>
              /\ ~HeldAtTeardown
              /\ last.logs[2] # <<>>
              /\ last.logs[2][1].op = "Player"
              /\ last.raised[2] = NoErr => player # 0 /\ last.ret.status = "ok"

\* C32's case: the construction of the first handle fails, the teardown
\* finds the slot empty and the second attempt succeeds.
C32_Witness ==
    /\ Executed
    /\ Attempts = 2
    /\ FirstHandleFailed
    /\ last.closes = 0
    /\ last.err = NoErr
    /\ player # 0

\* C39: close() leaves the handle in the player slot, and closes it again
\* when it is called again; an execute on a slot whose handle was closed
\* uses that handle and constructs none when its first attempt is the only
\* one, and gets a new handle when a transient failure makes it tear the
\* slot down for a second attempt.
C39_CloseKeepsSlot ==
    /\ CloseCalled => player = last.before
    /\ CloseCalled /\ last.wasClosed => last.closes = 1
    /\ Executed /\ last.wasClosed /\ Attempts = 1 =>
          /\ player = last.before
          /\ ~Constructed(1)
    /\ Executed /\ last.wasClosed /\ Attempts = 2 =>
          /\ player # last.before
          /\ player # 0 => Constructed(2)

\* C39's case: an execute after close() issues its calls on the closed
\* handle.
C39_Witness ==
    /\ Executed
    /\ last.wasClosed
    /\ Attempts = 1
    /\ last.logs[1] # <<>>
    /\ last.logs[1][1].op \in ChannelOps
    /\ last.err = NoErr
    /\ player = last.before

(***************************************************************************)
(* The top result.                                                         *)
(***************************************************************************)
\* What the catalog holds as the items of a kind for a term.
ItemsFor(kind, term) ==
    _deep_get(Catalog(term),
              IF kind = "artist" THEN <<"data", "searchV2", "artists", "items">>
              ELSE _SEARCH_SECTION_PATH(kind),
              JNone)

\* The uri of item 0: a track's is one level deeper.
TopUri(kind, term) ==
    _deep_get(ItemsFor(kind, term).v[1],
              IF kind = "track" THEN <<"item", "data", "uri">> ELSE <<"data", "uri">>,
              JNone)

\* The resolution called the search and the search answered.
SearchAnswered(e) ==
    /\ e.calls # <<>>
    /\ e.calls[Len(e.calls)].op \in {"query_songs", "query_artists"}
    /\ e.calls[Len(e.calls)].out = "none"

HasItems(kind, term) ==
    /\ ItemsFor(kind, term).t = "list"
    /\ ItemsFor(kind, term).v # <<>>

\* C33: a resolution whose search answers with a non-empty list of items
\* returns the uri of item 0, read at item.data.uri for a track and at
\* data.uri for an album, a playlist and an artist; when item 0 has no uri
\* (or an empty one) it raises NoResults, whatever the later items hold.
C33_TopResultOnly ==
    Executed =>
        \A i \in DOMAIN last.resolves :
            SearchAnswered(last.resolves[i])
              /\ HasItems(last.resolves[i].kind, last.resolves[i].target)
            => IF Truthy(TopUri(last.resolves[i].kind, last.resolves[i].target))
               THEN /\ last.resolves[i].err = NoErr
                    /\ last.resolves[i].uri
                          = TopUri(last.resolves[i].kind, last.resolves[i].target).v
               ELSE /\ last.resolves[i].err.type = "DSLError"
                    /\ last.resolves[i].err.kind = "NoResults"
                    /\ last.resolves[i].uri = <<>>

\* C33's case: item 0 of the track section has no uri and item 1 has one.
C33_Witness ==
    /\ Executed
    /\ \E i \in DOMAIN last.resolves :
          /\ last.resolves[i].kind = "track"
          /\ last.resolves[i].target = NameNoUri
          /\ SearchAnswered(last.resolves[i])
          /\ Len(ItemsFor("track", NameNoUri).v) = 2
          /\ Truthy(_deep_get(ItemsFor("track", NameNoUri).v[2],
                              <<"item", "data", "uri">>, JNone))
          /\ last.resolves[i].err.kind = "NoResults"

(***************************************************************************)
(* Pagination.                                                             *)
(***************************************************************************)
Paginating == last.op = "paginate"

\* The total of the first page, 0 when it has none.
FirstTotal == IF last.world.first.t = "int" THEN last.world.first.v ELSE 0

\* max(1, ceil(T / L))
PagesDue == Max(1, (FirstTotal + last.gen.upper_limit - 1) \div last.gen.upper_limit)

PagesInOrder ==
    /\ Len(last.gen.yielded) = Len(last.gen.fetched)
    /\ \A i \in DOMAIN last.gen.fetched :
          /\ last.gen.fetched[i] = <<last.gen.upper_limit, (i - 1) * last.gen.upper_limit>>
          /\ last.gen.yielded[i] = JList(<<JInt((i - 1) * last.gen.upper_limit)>>)
    /\ Len(last.gen.fetched) <= PagesDue
    /\ last.gen.pc = "created" <=> last.gen.fetched = <<>>
    /\ last.gen.pc = "done" => Len(last.gen.fetched) = PagesDue

\* C34: with a page size L of 1 or more, paginate fetches page i at offset
\* (i - 1) * L with limit L and yields its items, in this order; with T the
\* total of the first page (0 when it has none) and whatever total the later
\* pages report, it never fetches more than max(1, ceil(T / L)) pages, has
\* fetched and yielded exactly that many when it ends, and it does end.
C34_PaginatePages ==
    /\ [](Paginating => PagesInOrder)
    /\ (Paginating ~> (Paginating /\ last.gen.pc = "done"))

\* C34's case: a total of 6 in pages of 3 has ended after two pages, the
\* later page reporting a larger total.
C34_Witness ==
    /\ Paginating
    /\ last.gen.pc = "done"
    /\ last.gen.upper_limit = 3
    /\ last.world.first = JInt(6)
    /\ last.world.later = JInt(MaxTotal + 1)
    /\ last.gen.fetched = <<<<3, 0>>, <<3, 3>>>>

(***************************************************************************)
(* What a second attempt repeats.                                          *)
(***************************************************************************)
IsOperation(c) == c.op \notin {"Player", "Song", "Artist"}

\* The calls of attempt k that are not constructions of a handle.
IssuedIn(k) == SelectSeq(last.logs[k], IsOperation)

\* The calls of attempt k that went through, of one operation.
DoneIn(k, op) ==
    {i \in DOMAIN last.logs[k] : last.logs[k][i].op = op /\ last.logs[k][i].out = "none"}

\* C35: the second attempt of an execute starts the dispatch over: every
\* operation that went through in the first attempt is issued again in the
\* second, at the same place and with the same argument, and the channel
\* operations of the second attempt follow the construction of a new handle.
C35_RetryRepeatsOperations ==
    Executed /\ Attempts = 2 =>
        /\ \A i \in DOMAIN IssuedIn(1) :
              IssuedIn(1)[i].out = "none" =>
                 /\ i \in DOMAIN IssuedIn(2)
                 /\ IssuedIn(2)[i].op = IssuedIn(1)[i].op
                 /\ IssuedIn(2)[i].arg = IssuedIn(1)[i].arg
        /\ \A i \in DOMAIN last.logs[2] :
              last.logs[2][i].op \in ChannelOps \ {"Player"} =>
                 \E j \in 1..(i - 1) :
                    last.logs[2][j].op = "Player" /\ last.logs[2][j].out = "none"

\* C35's case: skip 2 with a volume whose write fails; both skips are
\* issued twice.
C35_Witness ==
    /\ Executed
    /\ Attempts = 2
    /\ Get(last.cmd, "action", "") = "skip"
    /\ last.logs[1] # <<>>
    /\ last.logs[1][Len(last.logs[1])].op = "set_volume"
    /\ last.logs[1][Len(last.logs[1])].out = "WebSocketError"
    /\ Cardinality(DoneIn(1, "skip_next")) = 2
    /\ Cardinality(DoneIn(2, "skip_next")) = 2
    /\ last.err = NoErr

(***************************************************************************)
(* The order of the action and its state modifiers.                        *)
(***************************************************************************)
\* The operations attempt k issued, in order.
OpsIn(k) == [i \in DOMAIN IssuedIn(k) |-> IssuedIn(k)[i].op]

\* The operations of the actions the state modifiers are tried on.
PrimaryOps(cmd) ==
    CASE cmd.action = "pause" -> <<"pause">>
      [] cmd.action = "skip" ->
            [i \in 1..Abs(cmd.n) |-> IF cmd.n > 0 THEN "skip_next" ELSE "skip_prev"]
      [] OTHER -> <<>>

VolumeOutOfRange ==
    /\ Executed
    /\ "action" \in DOMAIN last.cmd
    /\ "volume" \in DOMAIN last.cmd
    /\ (last.cmd.volume < 0 \/ last.cmd.volume > PercentMax)

\* C36: for an action with a volume outside 0..100 no attempt issues a
\* volume, mode or device operation and none succeeds; the attempt that
\* raises InvalidVolume has issued the operations of the action before, all
\* of them and nothing else.
C36_VolumeCheckedAfterAction ==
    VolumeOutOfRange =>
        \A k \in 1..Attempts :
            /\ \A i \in DOMAIN last.logs[k] : last.logs[k][i].op \notin ModifierOps
            /\ IsErr(last.raised[k])
            /\ last.raised[k].type = "DSLError" =>
                  /\ last.raised[k].kind = "InvalidVolume"
                  /\ OpsIn(k) = PrimaryOps(last.cmd)
                  /\ \A i \in DOMAIN last.logs[k] : last.logs[k][i].out = "none"

\* C36's case: pause with volume 150 has paused and then raised.
C36_Witness ==
    /\ VolumeOutOfRange
    /\ last.cmd.action = "pause"
    /\ last.cmd.volume = 150
    /\ Attempts = 1
    /\ OpsIn(1) = <<"pause">>
    /\ last.err.type = "DSLError"
    /\ last.err.kind = "InvalidVolume"

IsModifierOp(c) == c.op \in ModifierOps

\* The state-modifier operations attempt k issued, in order.
ModifierOpsIn(k) ==
    [i \in DOMAIN SelectSeq(last.logs[k], IsModifierOp) |->
        SelectSeq(last.logs[k], IsModifierOp)[i].op]

\* The operations the state modifiers of cmd come to, those of the volume
\* first, then of the relative volume, of the mode and of the device.
ModifierOpsDue(cmd) ==
    (IF "volume" \in DOMAIN cmd THEN <<"set_volume">> ELSE <<>>)
        \o (IF "volume_rel" \in DOMAIN cmd THEN <<"device_ids", "set_volume">> ELSE <<>>)
        \o (IF "mode" \in DOMAIN cmd THEN <<"set_shuffle", "repeat_track">> ELSE <<>>)
        \o (IF "device" \in DOMAIN cmd THEN <<"device_ids", "transfer_player">> ELSE <<>>)

\* The operations issued before the modifier named by the error gave up.
ModifierOpsBefore(cmd, kind) ==
    CASE kind = "InvalidVolume" -> <<>>
      [] kind = "VolumeUnavailable" ->
            (IF "volume" \in DOMAIN cmd THEN <<"set_volume">> ELSE <<>>) \o <<"device_ids">>
      [] kind = "DeviceNotFound" ->
            SubSeq(ModifierOpsDue(cmd), 1, Len(ModifierOpsDue(cmd)) - 1)

IsPrefix(s, t) == Len(s) <= Len(t) /\ s = SubSeq(t, 1, Len(s))

\* C37: whatever the order of the clauses in the text, every attempt of an
\* action issues the operations of its state modifiers in the order volume,
\* relative volume, mode, device, up to the first that fails: all of them
\* when the attempt raises nothing; none when the volume is refused; those
\* of the volume and the mode and the reading of the devices, without the
\* transfer, when the device is not found.
C37_ModifierOrder ==
    Ran =>
        \A c \in DOMAIN last.parsed : \A k \in 1..Attempts :
            "action" \in DOMAIN last.parsed[c] =>
                /\ IsPrefix(ModifierOpsIn(k), ModifierOpsDue(last.parsed[c]))
                /\ last.raised[k] = NoErr
                      => ModifierOpsIn(k) = ModifierOpsDue(last.parsed[c])
                /\ last.raised[k].type = "DSLError"
                      /\ last.raised[k].kind
                            \in {"InvalidVolume", "VolumeUnavailable", "DeviceNotFound"}
                      => ModifierOpsIn(k)
                            = ModifierOpsBefore(last.parsed[c], last.raised[k].kind)

\* C37's case: pause device "Den" mode repeat volume 70 where no device has
\* the name: the volume and the mode are written before the error.
C37_Witness ==
    /\ Ran
    /\ last.text = <<Spell("pause"), Spell("device"), Quoted(NameHit), Spell("mode"),
                     Spell("repeat"), Spell("volume"), <<"7", "0">>>>
    /\ Attempts = 1
    /\ last.err.type = "DSLError"
    /\ last.err.kind = "DeviceNotFound"
    /\ ModifierOpsIn(1) = <<"set_volume", "set_shuffle", "repeat_track", "device_ids">>

(***************************************************************************)
(* Commands of several targets.                                            *)
(***************************************************************************)
\* A name the search has no uri for.
Unresolvable(kind, target) ==
    /\ ~IsBareId(target)
    /\ ItemsFor(kind, target).t = "list"
    /\ ItemsFor(kind, target).v = <<>> \/ ~Truthy(TopUri(kind, target))

\* The first target of the command that cannot be resolved.
FirstBad(cmd) ==
    CHOOSE j \in DOMAIN cmd.targets :
        /\ Unresolvable(cmd.kind, cmd.targets[j])
        /\ \A i \in 1..(j - 1) : ~Unresolvable(cmd.kind, cmd.targets[i])

\* The uri of a target that can be resolved.
UriDue(kind, target) ==
    IF IsBareId(target) THEN BareUri(kind, target) ELSE TopUri(kind, target).v

IsMutation(c) == c.op \in LibraryOps \cup {"add_to_queue"}

\* The operations of attempt k that change the queue or the library.
MutationsIn(k) == SelectSeq(last.logs[k], IsMutation)

\* The operation that undoes nothing of what the action does.
Forward(action) ==
    CASE action = "queue" -> {"add_to_queue"}
      [] action = "library_add" ->
            {"like_song", "follow", "add_to_library", "add_song_to_playlist"}
      [] action = "library_remove" ->
            {"unlike_song", "unfollow", "remove_from_library", "remove_song_from_playlist"}

SeveralTargets ==
    /\ Executed
    /\ Get(last.cmd, "action", "") \in {"queue", "library_add", "library_remove"}
    /\ "query" \notin DOMAIN last.cmd
    /\ "context" \notin DOMAIN last.cmd
    /\ {"kind", "targets"} \subseteq DOMAIN last.cmd
    /\ last.cmd.action = "queue" => last.cmd.kind = "track"
    /\ \E j \in DOMAIN last.cmd.targets : Unresolvable(last.cmd.kind, last.cmd.targets[j])

\* C38: queue and library add/remove whose target k is the first the search
\* has nothing for: an attempt whose calls all go through raises NoResults;
\* it has issued one operation for each of the targets 1..k-1, in their
\* order (for queue, with the target's uri) and none of them undone, none for
\* target k or a later one, and no state modifier operation.
C38_NoRollback ==
    SeveralTargets =>
        \A k \in 1..Attempts :
            (\A i \in DOMAIN last.logs[k] : last.logs[k][i].out = "none") =>
                /\ last.raised[k].type = "DSLError"
                /\ last.raised[k].kind \in {"NoResults", "Unsupported"}
                /\ last.raised[k].kind = "NoResults" =>
                      /\ Len(MutationsIn(k)) = FirstBad(last.cmd) - 1
                      /\ \A i \in DOMAIN MutationsIn(k) :
                            /\ MutationsIn(k)[i].op \in Forward(last.cmd.action)
                            /\ last.cmd.action = "queue" =>
                                  MutationsIn(k)[i].arg
                                     = <<UriDue(last.cmd.kind, last.cmd.targets[i])>>
                      /\ \A i \in DOMAIN last.logs[k] :
                            last.logs[k][i].op \notin ModifierOps

\* C38's case: queue of the targets "Den", "xyz" and a bare id with volume
\* 70: "Den" is queued, "xyz" has no result, nothing else is done.
C38_Witness ==
    /\ SeveralTargets
    /\ last.cmd.action = "queue"
    /\ last.cmd.targets = <<NameHit, NameEmpty, BareA>>
    /\ "volume" \in DOMAIN last.cmd
    /\ Attempts = 1
    /\ last.err.type = "DSLError"
    /\ last.err.kind = "NoResults"
    /\ Len(MutationsIn(1)) = 1
    /\ MutationsIn(1)[1].arg = <<BareUri("track", FoundId)>>

====
